---- MODULE Spec2Model ----
(***************************************************************************)
(* A model of ContinuousListenerService (the endpoint detector and the     *)
(* wake-word / command mode controller) together with its environment:     *)
(* the audio stream that delivers chunks and errors, the transcription     *)
(* calls it starts (whisper.recognizeStream) and the promises returned by  *)
(* listenForWakeWord / listenForCommand.                                   *)
(*                                                                         *)
(* JavaScript runs each handler to its first await without interruption,   *)
(* so one action is one such run: a chunk's handler up to the await of     *)
(* recognizeStream, the continuation after recognizeStream settles, the    *)
(* error handler, and the executor of a listen promise.                    *)
(***************************************************************************)
EXTENDS Integers, Sequences, FiniteSets, TLC

----------------------------------------------------------------------------
(* Bounds of the model *)

MaxChunks == 9            \* chunks the stream delivers in one behaviour
MaxRequests == 3         \* listen calls in one behaviour
ChunkIntervalMs == 100   \* time between two chunk arrivals

(* silenceDuration * 1000 for the silenceDuration given to the constructor *)
SilenceDurations == {200}

(* volumeThreshold given to the constructor: 0, and the README's default *)
Thresholds == {0, 900}

(* Peak amplitude max(|sample|) of a chunk of 16-bit samples *)
Peaks == {0, 899, 900, 32767}

(* End-to-end scenario: chunks at or above the threshold, then chunks      *)
(* below it                                                                *)
ScenarioLoudChunks == 20
ScenarioQuietChunks == 16

(* Session: chunks delivered while the listener is in wake-word mode, and  *)
(* chunks delivered in all                                                 *)
MaxWakeChunks == 7
MaxSessionChunks == 13
MaxCommandChunks == 13   \* chunks the stream delivers in a behaviour of the command listen alone
MaxMessages == 5         \* messages the conversation history holds in a behaviour of the chat service alone

(* Program constants *)

CommandSkipChunks == 5        \* `this.chunkCount <= 5` in handleChunk
DefaultSilenceMs == 1500      \* the silenceDuration 1.5 VoiceAssistant constructs the listener with, * 1000
DefaultVolumeThreshold == 900 \* VOLUME_THRESHOLD of the README's .env

----------------------------------------------------------------------------
(* Values *)

NoReq == 0               \* null in currentResolver / currentRejector
NoTime == -1             \* null in silenceStartTime
ReqIds == 1..MaxRequests
StreamErrors == {"EPIPE", "ENODEV"}             \* what the stream's error event can carry
TranscriptionErrors == {"WhisperExit", "WhisperTimeout"}   \* what recognizeStream can reject with

(* Transcripts, as sequences of characters.  The transcription is opaque:  *)
(* any of these can come back for any audio.                               *)
T_Empty == <<>>
T_Hi == <<"H", "i">>
T_HeyIsis == <<"H", "e", "y", " ", "I", "S", "I", "S">>
T_IceIs == <<" ", "I", "c", "e", " ", "i", "s", " ">>
Transcripts == {T_Empty, T_Hi, T_HeyIsis, T_IceIs}

(* String.prototype.toLowerCase on the characters used *)
LowerChar(c) ==
  CASE c = "H" -> "h"
    [] c = "I" -> "i"
    [] c = "S" -> "s"
    [] c = "Y" -> "y"
    [] c = "N" -> "n"
    [] c = "O" -> "o"
    [] OTHER -> c

toLowerCase(s) == [i \in 1..Len(s) |-> LowerChar(s[i])]

IsSpace(c) == c = " "

RECURSIVE trimStart(_)
trimStart(s) ==
  IF s # <<>> /\ IsSpace(Head(s)) THEN trimStart(Tail(s)) ELSE s

RECURSIVE trimEnd(_)
trimEnd(s) ==
  IF s # <<>> /\ IsSpace(s[Len(s)]) THEN trimEnd(SubSeq(s, 1, Len(s) - 1)) ELSE s

(* String.prototype.trim *)
trim(s) == trimEnd(trimStart(s))

(* String.prototype.includes *)
includes(s, pat) ==
  \E i \in 1..(Len(s) - Len(pat) + 1) : SubSeq(s, i, i + Len(pat) - 1) = pat

WakePhrase == <<"i", "s", "i", "s">>
AltWakePhrase == <<"i", "c", "e", " ", "i", "s">>

(* Faulty variant: the match without toLowerCase *)
matchesWakeWordCaseSensitive(transcription) ==
  LET normalizedText == trim(transcription)
  IN  includes(normalizedText, WakePhrase) \/ includes(normalizedText, AltWakePhrase)

matchesWakeWord(transcription) ==
  LET normalizedText == trim(toLowerCase(transcription))
  IN  includes(normalizedText, WakePhrase) \/ includes(normalizedText, AltWakePhrase)

(* `transcription && transcription.trim().length > 0` *)
isNonBlank(transcription) == transcription # <<>> /\ Len(trim(transcription)) > 0

(* Faulty variant: no text counts as blank *)
isBlankNever(text) == FALSE

(* `!userText || userText.trim().length === 0` of processVoiceInput *)
isBlank(text) == text = <<>> \/ Len(trim(text)) = 0

(* What chatGPT.sendMessage can return, as sequences of characters: no     *)
(* text, text without a sentence end, sentences, a sentence followed by    *)
(* text without an end, and several sentences with different ends          *)
R_Empty == <<>>
R_Word == <<"o", "k">>
R_One == <<"a", ".">>
R_Tail == <<"a", ".", "b">>
R_Two == <<"a", ".", " ", "b", "!">>
R_Three == <<"a", ".", "b", "?", "!", "c", ".">>
R_Five == <<"a", ".", "b", ".", "c", ".", "d", ".", "e", ".">>
Replies == {R_Empty, R_Word, R_One, R_Tail, R_Two, R_Three, R_Five}
GenerationErrors == {"OpenAIError"}       \* what chatGPT.sendMessage can reject with

(* The messages of ChatGPTService.conversationHistory.  The content of the *)
(* system message, fixed in the constructor, is abbreviated.               *)
Message(role, content) == [role |-> role, content |-> content]
SystemMessage == Message("system", <<"Y", "o", "u", " ", "a", "r", "e">>)
UserMessage(userMessage) == Message("user", userMessage)
AssistantMessage(assistantMessage) == Message("assistant", assistantMessage)

(* Texts processVoiceInput passes to sendMessage: never blank *)
UserMessages == {T_Hi, T_HeyIsis}
SynthesisErrors == {"SayError"}           \* what textToSpeech.speak can reject with

(* `I heard you say: ` of the test mode *)
EchoPrefix == <<"I", " ", "h", "e", "a", "r", "d", " ", "y", "o", "u", " ", "s", "a", "y", ":", " ">>

(* [.!?] *)
IsSentenceEnd(c) == c \in {".", "!", "?"}

(* The first position from i on whose character is (end = TRUE) or is not  *)
(* (end = FALSE) a sentence end, Len(s) + 1 if there is none               *)
RECURSIVE Scan(_, _, _)
Scan(s, i, end) ==
  IF i > Len(s) \/ IsSentenceEnd(s[i]) = end THEN i ELSE Scan(s, i + 1, end)

(* s.match(/[^.!?]+[.!?]+/g) from position i on: the matches in order, <<>> for null *)
RECURSIVE MatchSentences(_, _)
MatchSentences(s, i) ==
  LET b == Scan(s, i, FALSE)      \* first character that can start a match
      j == Scan(s, b, TRUE)       \* the sentence end after it
      k == Scan(s, j, FALSE)      \* where the run of sentence ends stops
  IN  IF b > Len(s) \/ j > Len(s)
      THEN <<>>
      ELSE <<SubSeq(s, b, k - 1)>> \o MatchSentences(s, k)

(* `assistantResponse.match(/[^.!?]+[.!?]+/g) || [assistantResponse]` *)
splitSentences(assistantResponse) ==
  LET m == MatchSentences(assistantResponse, 1)
  IN  IF m = <<>> THEN <<assistantResponse>> ELSE m

(* Array.prototype.slice(from, to) with 0-based from and to *)
slice(a, from, to) == SubSeq(a, from + 1, IF to < Len(a) THEN to ELSE Len(a))

(* Array.prototype.join(' ') *)
RECURSIVE join(_)
join(a) ==
  IF a = <<>> THEN <<>>
  ELSE IF Len(a) = 1 THEN a[1]
  ELSE a[1] \o <<" ">> \o join(Tail(a))

(* What the confirmation capture can be transcribed as *)
A_Yes == <<"Y", "e", "s">>
A_No == <<"N", "O">>
A_GoAhead == <<" ", "g", "o", " ", "a", "h", "e", "a", "d">>
Answers == {T_Empty, A_Yes, A_No, A_GoAhead}

AffirmativeTokens ==
  { <<"y", "e", "s">>,
    <<"y", "e", "a", "h">>,
    <<"c", "o", "n", "t", "i", "n", "u", "e">>,
    <<"g", "o", " ", "a", "h", "e", "a", "d">>,
    <<"k", "e", "e", "p", " ", "g", "o", "i", "n", "g">> }

(* Faulty variant: every answer that is not empty counts as affirmative *)
isAffirmativeUnlessEmpty(response) == trim(toLowerCase(response)) # <<>>

(* The check for an affirmative response of the playback loop *)
isAffirmative(response) ==
  LET normalized == trim(toLowerCase(response))
  IN  \E token \in AffirmativeTokens : includes(normalized, token)

----------------------------------------------------------------------------
(* State *)

VARIABLES
  volumeThreshold,    \* constructor argument
  silenceDuration,    \* constructor argument, held here in milliseconds (silenceDuration * 1000)
  chunkBuffer,        \* sequence of chunk ids (a chunk's id is its position in the stream)
  silenceStartTime,   \* NoTime or the time of the first chunk of the silence run
  isProcessing,
  mode,
  currentResolver,    \* NoReq or the listen request whose resolve function is held
  currentRejector,    \* NoReq or the listen request whose reject function is held
  chunkCount,
  hasReceivedAudio,
  now,                \* Date.now()
  streamPos,          \* chunks the stream has delivered so far
  inflight,           \* recognizeStream calls that have not settled yet
  nextTid,            \* id of the next recognizeStream call
  promises,           \* the promises returned by the listen calls
  settlement,         \* history: the call of a resolve or reject function the last step made, if any
  nextReq,            \* id of the next listen request
  speechSinceBoundary,\* history: a handled chunk reached the threshold since the last boundary or listen call
  speechSinceEntry,   \* history: a handled chunk reached the threshold since the last listen call
  wakeFailed,         \* history: a wake-word transcription has failed since the last listen call, a request outstanding
  quietSeen,          \* history: the stream has delivered a chunk below the threshold
  runStart,           \* history: first chunk of the run of below-threshold chunks the latest handled chunk ends, or 0
  lastBoundaryAt,     \* history: chunk of the most recent boundary since the last listen call, or 0
  chunksSinceEntry,   \* history: chunks delivered since the last listen call, counted up to CommandSkipChunks + 1
                      \*          in command mode and up to 1 in wake-word mode
  interrupted,        \* history: since the last listen call a chunk at or above the threshold ended a run of below-threshold chunks
  pc,                 \* the await at which VoiceAssistant.start / processVoiceInput stands
  continuousStream,   \* VoiceAssistant.continuousStream: 0 (null) or the number of the stream it holds
  continuousListener, \* VoiceAssistant.continuousListener is not null
  streamsCreated,     \* history: continuous recordings AudioInputService has started
  handlersAttached,   \* history: calls of ContinuousListenerService.startListening
  recording,          \* AudioInputService.recording: "none" (null), "continuous" or "confirm"
  stopTimers,         \* pending setTimeout(() => audioInput.stopRecording(), 3000) callbacks
  continuousStopped,  \* history: stop() was called on the continuous recording
  streamFailed,       \* history: the continuous stream has emitted `error`
  userText,           \* processVoiceInput's userText
  userResponse,       \* processVoiceInput's userResponse, the latest confirmation transcript
  sentences,          \* processVoiceInput's sentences
  sentenceIndex,      \* processVoiceInput's sentenceIndex
  shouldContinueSpeaking,
  spoken,             \* history: the speak calls of the current cycle, in order
  prompts,            \* history: the texts chatGPT.sendMessage was called with in the current cycle
  caught,             \* history: what the catch block of processVoiceInput caught when the latest
                      \*          finished cycle ended, "none" if that cycle returned
  conversationHistory, \* ChatGPTService.conversationHistory
  completionPending   \* a chat.completions.create call of sendMessage is awaited

vars == <<volumeThreshold, silenceDuration, chunkBuffer, silenceStartTime, isProcessing,
          mode, currentResolver, currentRejector, chunkCount, hasReceivedAudio, now,
          streamPos, inflight, nextTid, promises, settlement, nextReq, speechSinceBoundary,
          speechSinceEntry, wakeFailed, quietSeen, runStart, lastBoundaryAt, chunksSinceEntry,
          interrupted, pc, continuousStream, continuousListener, streamsCreated,
          handlersAttached, recording, stopTimers, continuousStopped, streamFailed, userText,
          userResponse, sentences, sentenceIndex, shouldContinueSpeaking, spoken, prompts, caught,
          conversationHistory, completionPending>>

listenerVars == <<chunkBuffer, silenceStartTime, isProcessing, mode, currentResolver,
                  currentRejector, chunkCount, hasReceivedAudio>>

configVars == <<volumeThreshold, silenceDuration>>

detectorHistory == <<quietSeen, runStart, lastBoundaryAt, chunksSinceEntry, interrupted>>

captureVars == <<continuousStream, continuousListener, streamsCreated, handlersAttached,
                 recording, stopTimers, continuousStopped>>

playbackVars == <<userText, userResponse, sentences, sentenceIndex, shouldContinueSpeaking>>

cycleHistory == <<spoken, prompts, caught>>

chatVars == <<conversationHistory, completionPending>>

sessionVars == <<pc, captureVars, streamFailed, playbackVars, cycleHistory, chatVars>>

NoPromise == [status |-> "none", calls |-> 0]

(* new Promise((resolve, reject) => ...): a pending promise *)
NewPromise == [NoPromise EXCEPT !.status = "pending"]

(* Calling the resolve (kind "resolved") or reject (kind "rejected")       *)
(* function of request r.  A promise keeps its first settlement; calls     *)
(* counts every call of either function.                                   *)
Settle(P, r, kind) ==
  [P EXCEPT ![r] = [P[r] EXCEPT !.status = IF P[r].status = "pending" THEN kind ELSE P[r].status,
                                !.calls = P[r].calls + 1]]

NoSettlement == [req |-> NoReq, kind |-> "none", value |-> <<>>, error |-> "none",
                 viaTid |-> 0, viaMode |-> "none", viaReq |-> NoReq]

(* What a call of a resolve function passed: the transcript, and    *)
(* the recognizeStream call t it came from                                 *)
Resolved(r, v, t) ==
  [NoSettlement EXCEPT !.req = r, !.kind = "resolved", !.value = v,
                       !.viaTid = t.id, !.viaMode = t.mode, !.viaReq = t.req]

(* What a call of a reject function passed: the error, and where    *)
(* it came from                                                            *)
Rejected(r, e, via) ==
  [NoSettlement EXCEPT !.req = r, !.kind = "rejected", !.error = e, !.viaMode = via]

(* The session starts in VoiceAssistant.listenForWakeWord, which creates   *)
(* the listener, attaches it to the stream and calls its listenForWakeWord *)
(* in one run: when the first chunk can arrive, request 1 is outstanding.  *)
Start(threshold, duration) ==
  /\ volumeThreshold = threshold
  /\ silenceDuration = duration
  /\ chunkBuffer = <<>>
  /\ silenceStartTime = NoTime
  /\ isProcessing = FALSE
  /\ mode = "wake_word"
  /\ currentResolver = 1
  /\ currentRejector = 1
  /\ chunkCount = 0
  /\ hasReceivedAudio = FALSE
  /\ now = 0
  /\ streamPos = 0
  /\ inflight = {}
  /\ nextTid = 1
  /\ promises = [r \in ReqIds |-> IF r = 1 THEN NewPromise ELSE NoPromise]
  /\ nextReq = 2
  /\ speechSinceBoundary = FALSE
  /\ speechSinceEntry = FALSE
  /\ wakeFailed = FALSE
  /\ settlement = NoSettlement
  /\ quietSeen = FALSE
  /\ runStart = 0
  /\ lastBoundaryAt = 0
  /\ chunksSinceEntry = 0
  /\ interrupted = FALSE
  /\ pc = "await_wake"
  /\ continuousStream = 1
  /\ continuousListener = TRUE
  /\ streamsCreated = 1
  /\ handlersAttached = 1
  /\ recording = "continuous"
  /\ stopTimers = 0
  /\ continuousStopped = FALSE
  /\ streamFailed = FALSE
  /\ userText = <<>>
  /\ userResponse = <<>>
  /\ sentences = <<>>
  /\ sentenceIndex = 0
  /\ shouldContinueSpeaking = TRUE
  /\ spoken = <<>>
  /\ prompts = <<>>
  /\ caught = "none"
  /\ conversationHistory = <<SystemMessage>>
  /\ completionPending = FALSE

Init == \E threshold \in Thresholds, duration \in SilenceDurations : Start(threshold, duration)

----------------------------------------------------------------------------
(* listenForWakeWord / listenForCommand: the promise executor runs at once *)

listenForWakeWord ==
  /\ nextReq <= MaxRequests
  /\ mode' = "wake_word"
  /\ chunkBuffer' = <<>>
  /\ silenceStartTime' = NoTime
  /\ isProcessing' = FALSE
  /\ hasReceivedAudio' = FALSE
  /\ currentResolver' = nextReq
  /\ currentRejector' = nextReq
  /\ promises' = [promises EXCEPT ![nextReq] = NewPromise]
  /\ nextReq' = nextReq + 1
  /\ speechSinceBoundary' = FALSE
  /\ speechSinceEntry' = FALSE
  /\ wakeFailed' = FALSE
  /\ settlement' = NoSettlement
  /\ runStart' = 0
  /\ lastBoundaryAt' = 0
  /\ chunksSinceEntry' = 0
  /\ interrupted' = FALSE
  /\ UNCHANGED <<configVars, chunkCount, now, streamPos, inflight, nextTid, quietSeen>>

listenForCommand ==
  /\ nextReq <= MaxRequests
  /\ mode' = "command"
  /\ chunkBuffer' = <<>>
  /\ silenceStartTime' = NoTime
  /\ isProcessing' = FALSE
  /\ chunkCount' = 0
  /\ hasReceivedAudio' = FALSE
  /\ currentResolver' = nextReq
  /\ currentRejector' = nextReq
  /\ promises' = [promises EXCEPT ![nextReq] = NewPromise]
  /\ nextReq' = nextReq + 1
  /\ speechSinceBoundary' = FALSE
  /\ speechSinceEntry' = FALSE
  /\ wakeFailed' = FALSE
  /\ settlement' = NoSettlement
  /\ runStart' = 0
  /\ lastBoundaryAt' = 0
  /\ chunksSinceEntry' = 0
  /\ interrupted' = FALSE
  /\ UNCHANGED <<configVars, now, streamPos, inflight, nextTid, quietSeen>>

----------------------------------------------------------------------------
(* The fields a chunk's handler works on, with the audio it hands to       *)
(* recognizeStream (dispatch) if it does.                                  *)

ListenerState(buf, sst, proc, hra) ==
  [chunkBuffer |-> buf, silenceStartTime |-> sst, isProcessing |-> proc,
   hasReceivedAudio |-> hra, dispatch |-> FALSE, audio |-> <<>>]

(* Faulty variant: a boundary met while a transcription is in progress discards the buffer *)
processWakeWordDiscardsWhenBusy(s) ==
  IF Len(s.chunkBuffer) = 0
  THEN s
  ELSE IF s.isProcessing
       THEN [s EXCEPT !.chunkBuffer = <<>>, !.silenceStartTime = NoTime]
       ELSE [s EXCEPT !.isProcessing = TRUE,
                      !.audio = s.chunkBuffer,
                      !.chunkBuffer = <<>>,
                      !.silenceStartTime = NoTime,
                      !.dispatch = TRUE]

(* Faulty variant: processWakeWord without `this.chunkBuffer = []` *)
processWakeWordKeepsBuffer(s) ==
  IF s.isProcessing \/ Len(s.chunkBuffer) = 0
  THEN s
  ELSE [s EXCEPT !.isProcessing = TRUE,
                 !.audio = s.chunkBuffer,
                 !.silenceStartTime = NoTime,
                 !.dispatch = TRUE]

(* processWakeWord up to `await this.whisper.recognizeStream` *)
processWakeWord(s) ==
  IF s.isProcessing \/ Len(s.chunkBuffer) = 0
  THEN s
  ELSE [s EXCEPT !.isProcessing = TRUE,
                 !.audio = s.chunkBuffer,
                 !.chunkBuffer = <<>>,
                 !.silenceStartTime = NoTime,
                 !.dispatch = TRUE]

(* Faulty variant: processCommand without the hasReceivedAudio test *)
processCommandNoSpeechCheck(s) ==
  IF s.isProcessing \/ Len(s.chunkBuffer) = 0
  THEN s
  ELSE [s EXCEPT !.isProcessing = TRUE,
                 !.audio = s.chunkBuffer,
                 !.chunkBuffer = <<>>,
                 !.dispatch = TRUE]

(* Faulty variant: processCommand without the reset of a silence-only buffer *)
processCommandKeepsSilence(s) ==
  IF s.isProcessing \/ Len(s.chunkBuffer) = 0 \/ ~s.hasReceivedAudio
  THEN s
  ELSE [s EXCEPT !.isProcessing = TRUE,
                 !.audio = s.chunkBuffer,
                 !.chunkBuffer = <<>>,
                 !.dispatch = TRUE]

(* processCommand up to `await this.whisper.recognizeStream` *)
processCommand(s) ==
  IF s.isProcessing \/ Len(s.chunkBuffer) = 0 \/ ~s.hasReceivedAudio
  THEN IF ~s.hasReceivedAudio
       THEN [s EXCEPT !.chunkBuffer = <<>>, !.silenceStartTime = NoTime]
       ELSE s
  ELSE [s EXCEPT !.isProcessing = TRUE,
                 !.audio = s.chunkBuffer,
                 !.chunkBuffer = <<>>,
                 !.dispatch = TRUE]

(* Faulty variant: `<` for `<=` in the command-mode test *)
isSkippedOneFewer(cnt) == cnt = 1 \/ (mode = "command" /\ cnt < CommandSkipChunks)

(* `this.chunkCount === 1`, and in command mode `this.chunkCount <= 5`:   *)
(* the chunk is dropped before anything looks at it                        *)
isSkipped(cnt) == cnt = 1 \/ (mode = "command" /\ cnt <= CommandSkipChunks)

(* Faulty variant: `<=` for `<` *)
belowThresholdInclusive(peak) == peak <= volumeThreshold

(* `chunkMaxVolume < this.volumeThreshold` *)
belowThreshold(peak) == peak < volumeThreshold

(* Faulty variant: `>` for `>=` *)
silenceElapsedStrict(t) == t - silenceStartTime > silenceDuration

(* `now - this.silenceStartTime >= this.silenceDuration * 1000` *)
silenceElapsed(t) == t - silenceStartTime >= silenceDuration

(* Faulty variant: the else branch without the assignment of null *)
aboveThresholdKeepsTimer(s) == s

(* Faulty variant: the else branch moves the start of the timer past the  *)
(* chunk instead of unsetting it                                           *)
aboveThresholdPausesTimer(s) ==
  [s EXCEPT !.silenceStartTime = IF @ = NoTime THEN NoTime ELSE @ + ChunkIntervalMs]

(* The else branch of the silence check: `this.silenceStartTime = null` *)
aboveThreshold(s) == [s EXCEPT !.silenceStartTime = NoTime]

(* The `data` handler: handleChunk for a chunk of peak amplitude peak      *)
handleChunk(peak) ==
  LET id == streamPos + 1
      t == now + ChunkIntervalMs
      cnt == chunkCount + 1
      skipped == isSkipped(cnt)
      quiet == belowThreshold(peak)
      hra == IF mode = "command" /\ peak >= volumeThreshold THEN TRUE ELSE hasReceivedAudio
      s0 == ListenerState(Append(chunkBuffer, id), silenceStartTime, isProcessing, hra)
      boundary == /\ quiet
                  /\ silenceStartTime # NoTime
                  /\ silenceElapsed(t)
      s1 == IF quiet
            THEN IF silenceStartTime = NoTime
                 THEN [s0 EXCEPT !.silenceStartTime = t]
                 ELSE IF boundary
                      THEN IF mode = "wake_word" THEN processWakeWord(s0) ELSE processCommand(s0)
                      ELSE s0
            ELSE aboveThreshold(s0)
  IN  /\ streamPos' = id
      /\ now' = t
      /\ chunkCount' = cnt
      /\ quietSeen' = (quietSeen \/ peak < volumeThreshold)
      /\ chunksSinceEntry' = IF chunksSinceEntry < (IF mode = "command"
                                                    THEN CommandSkipChunks + 1 ELSE 1)
                             THEN chunksSinceEntry + 1 ELSE chunksSinceEntry
      /\ IF skipped
         THEN /\ UNCHANGED <<chunkBuffer, silenceStartTime, isProcessing, hasReceivedAudio,
                             inflight, nextTid, speechSinceBoundary, speechSinceEntry,
                             runStart, lastBoundaryAt, interrupted>>
         ELSE /\ chunkBuffer' = s1.chunkBuffer
              /\ silenceStartTime' = s1.silenceStartTime
              /\ isProcessing' = s1.isProcessing
              /\ hasReceivedAudio' = s1.hasReceivedAudio
              /\ inflight' = IF s1.dispatch
                             THEN inflight \cup {[id |-> nextTid, mode |-> mode,
                                                  audio |-> s1.audio, req |-> currentResolver]}
                             ELSE inflight
              /\ nextTid' = IF s1.dispatch THEN nextTid + 1 ELSE nextTid
              /\ speechSinceBoundary' = IF boundary THEN FALSE
                                        ELSE speechSinceBoundary \/ ~quiet
              /\ speechSinceEntry' = (speechSinceEntry \/ ~quiet)
              /\ runStart' = IF peak < volumeThreshold
                             THEN (IF runStart = 0 THEN id ELSE runStart)
                             ELSE 0
              /\ lastBoundaryAt' = IF boundary THEN id ELSE lastBoundaryAt
              /\ interrupted' = (interrupted \/ (peak >= volumeThreshold /\ runStart # 0))
      /\ settlement' = NoSettlement
      /\ UNCHANGED <<configVars, mode, currentResolver, currentRejector, promises,
                     nextReq, wakeFailed>>

(* Faulty variant: the error handler without the two assignments of null *)
streamErrorKeepSlot(error) ==
  /\ IF currentRejector # NoReq
     THEN /\ promises' = Settle(promises, currentRejector, "rejected")
          /\ settlement' = Rejected(currentRejector, error, "stream")
     ELSE /\ UNCHANGED promises
          /\ settlement' = NoSettlement
  /\ UNCHANGED <<configVars, listenerVars, now, streamPos, inflight, nextTid, nextReq,
                 speechSinceBoundary, speechSinceEntry, wakeFailed, detectorHistory>>

(* The `error` handler of startListening *)
streamError(error) ==
  /\ IF currentRejector # NoReq
     THEN /\ promises' = Settle(promises, currentRejector, "rejected")
          /\ settlement' = Rejected(currentRejector, error, "stream")
          /\ currentResolver' = NoReq
          /\ currentRejector' = NoReq
     ELSE /\ UNCHANGED <<promises, currentResolver, currentRejector>>
          /\ settlement' = NoSettlement
  /\ UNCHANGED <<configVars, chunkBuffer, silenceStartTime, isProcessing, mode, chunkCount,
                 hasReceivedAudio, now, streamPos, inflight, nextTid, nextReq,
                 speechSinceBoundary, speechSinceEntry, wakeFailed, detectorHistory>>

(* processWakeWord after recognizeStream resolved with transcription *)
processWakeWordReturned(t, transcription) ==
  /\ t \in inflight
  /\ t.mode = "wake_word"
  /\ inflight' = inflight \ {t}
  /\ IF isNonBlank(transcription) /\ matchesWakeWord(transcription) /\ currentResolver # NoReq
     THEN /\ promises' = Settle(promises, currentResolver, "resolved")
          /\ settlement' = Resolved(currentResolver, transcription, t)
          /\ currentResolver' = NoReq
          /\ currentRejector' = NoReq
     ELSE /\ UNCHANGED <<promises, currentResolver, currentRejector>>
          /\ settlement' = NoSettlement
  /\ isProcessing' = FALSE
  /\ UNCHANGED <<configVars, chunkBuffer, silenceStartTime, mode, chunkCount, hasReceivedAudio,
                 now, streamPos, nextTid, nextReq, speechSinceBoundary, speechSinceEntry,
                 wakeFailed, detectorHistory>>

(* Faulty variant: the catch block of processCommand in processWakeWord *)
processWakeWordFailedRejects(t, error) ==
  /\ t \in inflight
  /\ t.mode = "wake_word"
  /\ inflight' = inflight \ {t}
  /\ isProcessing' = FALSE
  /\ IF currentRejector # NoReq
     THEN /\ promises' = Settle(promises, currentRejector, "rejected")
          /\ settlement' = Rejected(currentRejector, error, "wake_word")
          /\ currentResolver' = NoReq
          /\ currentRejector' = NoReq
     ELSE UNCHANGED <<promises, currentResolver, currentRejector>>
          /\ settlement' = NoSettlement
  /\ UNCHANGED <<configVars, chunkBuffer, silenceStartTime, mode, chunkCount,
                 hasReceivedAudio, now, streamPos, nextTid, nextReq, speechSinceBoundary,
                 speechSinceEntry, wakeFailed, detectorHistory>>

(* processWakeWord after recognizeStream rejected: the catch block *)
processWakeWordFailed(t, error) ==
  /\ t \in inflight
  /\ t.mode = "wake_word"
  /\ inflight' = inflight \ {t}
  /\ isProcessing' = FALSE
  /\ wakeFailed' = (wakeFailed \/ currentResolver # NoReq)
  /\ UNCHANGED <<configVars, chunkBuffer, silenceStartTime, mode, currentResolver,
                 currentRejector, chunkCount, hasReceivedAudio, now, streamPos, nextTid,
                 promises, nextReq, speechSinceBoundary, speechSinceEntry, detectorHistory>>
  /\ settlement' = NoSettlement

(* Faulty variant: resolves without the two assignments of null *)
processCommandReturnedKeepSlot(t, transcription) ==
  /\ t \in inflight
  /\ t.mode = "command"
  /\ inflight' = inflight \ {t}
  /\ IF currentResolver # NoReq
     THEN /\ promises' = Settle(promises, currentResolver, "resolved")
          /\ settlement' = Resolved(currentResolver, transcription, t)
     ELSE /\ UNCHANGED promises
          /\ settlement' = NoSettlement
  /\ UNCHANGED <<configVars, listenerVars, now, streamPos, nextTid, nextReq,
                 speechSinceBoundary, speechSinceEntry, wakeFailed, detectorHistory>>

(* Faulty variant: fulfilling the command request returns the listener to *)
(* wake-word mode by itself                                                *)
processCommandReturnedLeavesCommand(t, transcription) ==
  /\ t \in inflight
  /\ t.mode = "command"
  /\ inflight' = inflight \ {t}
  /\ IF currentResolver # NoReq
     THEN /\ promises' = Settle(promises, currentResolver, "resolved")
          /\ settlement' = Resolved(currentResolver, transcription, t)
          /\ currentResolver' = NoReq
          /\ currentRejector' = NoReq
          /\ mode' = "wake_word"
     ELSE /\ UNCHANGED <<promises, currentResolver, currentRejector, mode>>
          /\ settlement' = NoSettlement
  /\ UNCHANGED <<configVars, chunkBuffer, silenceStartTime, isProcessing, chunkCount,
                 hasReceivedAudio, now, streamPos, nextTid, nextReq, speechSinceBoundary,
                 speechSinceEntry, wakeFailed, detectorHistory>>

(* processCommand after recognizeStream resolved with transcription *)
processCommandReturned(t, transcription) ==
  /\ t \in inflight
  /\ t.mode = "command"
  /\ inflight' = inflight \ {t}
  /\ IF currentResolver # NoReq
     THEN /\ promises' = Settle(promises, currentResolver, "resolved")
          /\ settlement' = Resolved(currentResolver, transcription, t)
          /\ currentResolver' = NoReq
          /\ currentRejector' = NoReq
     ELSE /\ UNCHANGED <<promises, currentResolver, currentRejector>>
          /\ settlement' = NoSettlement
  /\ UNCHANGED <<configVars, chunkBuffer, silenceStartTime, isProcessing, mode, chunkCount,
                 hasReceivedAudio, now, streamPos, nextTid, nextReq, speechSinceBoundary,
                 speechSinceEntry, wakeFailed, detectorHistory>>

(* Faulty variant: the catch block of processWakeWord in processCommand *)
processCommandFailedSwallowed(t, error) ==
  /\ t \in inflight
  /\ t.mode = "command"
  /\ inflight' = inflight \ {t}
  /\ settlement' = NoSettlement
  /\ UNCHANGED <<configVars, listenerVars, now, streamPos, nextTid, promises,
                 nextReq,
                 speechSinceBoundary, speechSinceEntry, wakeFailed, detectorHistory>>

(* processCommand after recognizeStream rejected: the catch block *)
processCommandFailed(t, error) ==
  /\ t \in inflight
  /\ t.mode = "command"
  /\ inflight' = inflight \ {t}
  /\ IF currentRejector # NoReq
     THEN /\ promises' = Settle(promises, currentRejector, "rejected")
          /\ settlement' = Rejected(currentRejector, error, "command")
          /\ currentResolver' = NoReq
          /\ currentRejector' = NoReq
     ELSE /\ UNCHANGED <<promises, currentResolver, currentRejector>>
          /\ settlement' = NoSettlement
  /\ UNCHANGED <<configVars, chunkBuffer, silenceStartTime, isProcessing, mode, chunkCount,
                 hasReceivedAudio, now, streamPos, nextTid, nextReq, speechSinceBoundary,
                 speechSinceEntry, wakeFailed, detectorHistory>>

----------------------------------------------------------------------------

(* Date.now() in the handler of chunk id: chunks arrive ChunkIntervalMs    *)
(* apart, the stream starting at time 0                                    *)
ArrivalTime(id) == id * ChunkIntervalMs

(* The stream delivers its next chunk *)
data(peak) == streamPos < MaxChunks /\ handleChunk(peak)

(* The listener with its stream and its transcription calls; the listen    *)
(* calls can come at any time.                                             *)
ListenerNext ==
  \/ listenForWakeWord
  \/ listenForCommand
  \/ \E peak \in Peaks : data(peak)
  \/ \E error \in StreamErrors : streamError(error)
  \/ \E t \in inflight, transcription \in Transcripts : processWakeWordReturned(t, transcription)
  \/ \E t \in inflight, error \in TranscriptionErrors : processWakeWordFailed(t, error)
  \/ \E t \in inflight, transcription \in Transcripts : processCommandReturned(t, transcription)
  \/ \E t \in inflight, error \in TranscriptionErrors : processCommandFailed(t, error)

Next == ListenerNext /\ UNCHANGED sessionVars

Spec == Init /\ [][Next]_vars

(* The command listen alone: the stream delivers chunks only while the     *)
(* listener is in command mode, so that a longer stretch of one command    *)
(* listen fits in the stream.                                              *)
commandData(peak) == mode = "command" /\ streamPos < MaxCommandChunks /\ handleChunk(peak)

CommandNext ==
  /\ \/ listenForWakeWord
     \/ listenForCommand
     \/ \E peak \in Peaks : commandData(peak)
     \/ \E error \in StreamErrors : streamError(error)
     \/ \E t \in inflight, transcription \in Transcripts : processCommandReturned(t, transcription)
     \/ \E t \in inflight, error \in TranscriptionErrors : processCommandFailed(t, error)
  /\ UNCHANGED sessionVars

CommandSpec == Init /\ [][CommandNext]_vars

----------------------------------------------------------------------------
(* The end-to-end scenario: a listener built as VoiceAssistant builds it,  *)
(* fed ScenarioLoudChunks chunks at or above the threshold and then        *)
(* ScenarioQuietChunks chunks below it, in wake-word mode or, with         *)
(* listenForCommand called before the first chunk, in command mode.        *)

ScenarioInit == Start(DefaultVolumeThreshold, DefaultSilenceMs)

scenarioData(peak) ==
  /\ streamPos < ScenarioLoudChunks + ScenarioQuietChunks
  /\ IF streamPos < ScenarioLoudChunks THEN peak >= volumeThreshold ELSE peak < volumeThreshold
  /\ handleChunk(peak)

scenarioListenForCommand == streamPos = 0 /\ mode = "wake_word" /\ listenForCommand

ScenarioNext ==
  /\ \/ scenarioListenForCommand
     \/ \E peak \in Peaks : scenarioData(peak)
     \/ \E error \in StreamErrors : streamError(error)
     \/ \E t \in inflight, transcription \in Transcripts : processWakeWordReturned(t, transcription)
     \/ \E t \in inflight, error \in TranscriptionErrors : processWakeWordFailed(t, error)
     \/ \E t \in inflight, transcription \in Transcripts : processCommandReturned(t, transcription)
     \/ \E t \in inflight, error \in TranscriptionErrors : processCommandFailed(t, error)
  /\ UNCHANGED sessionVars

ScenarioSpec == ScenarioInit /\ [][ScenarioNext]_vars

(* An invariant of Spec *)
TypeOK ==
  /\ mode \in {"wake_word", "command"}
  /\ currentResolver \in ReqIds \cup {NoReq}
  /\ currentRejector \in ReqIds \cup {NoReq}
  /\ isProcessing \in BOOLEAN
  /\ hasReceivedAudio \in BOOLEAN
  /\ chunkCount \in 0..MaxChunks
  /\ streamPos \in 0..MaxChunks
  /\ runStart \in 0..MaxChunks
  /\ lastBoundaryAt \in 0..MaxChunks
  /\ chunksSinceEntry \in 0..(CommandSkipChunks + 1)

----------------------------------------------------------------------------
(* The session: VoiceAssistant.start calling processVoiceInput in a loop.  *)
(* pc names the await the orchestrator stands at: "start" (before the      *)
(* first processVoiceInput, line 283), "await_wake" (line 59), "speak_yes" *)
(* (line 74), "settle_pause" (line 77), "await_command" (line 88),         *)
(* "speak_apology" (line 97), "await_reply" (line 110), "speak_reply"      *)
(* (line 126), "ask_continue" (line 132), "await_confirm" (line 140),      *)
(* "speak_stop" (line 157) and "cycle_pause" (line 286).  The listener,    *)
(* its stream and its transcriptions go on while the orchestrator waits.   *)

(* ChatGPTService.sendMessage up to `await this.openai.chat.completions.create` *)
sendMessage(userMessage) ==
  /\ conversationHistory' = Append(conversationHistory, UserMessage(userMessage))
  /\ completionPending' = TRUE

(* sendMessage after the completion arrived: the assistant's message is    *)
(* pushed and returned                                                     *)
sendMessageReturned(assistantMessage) ==
  /\ completionPending
  /\ conversationHistory' = Append(conversationHistory, AssistantMessage(assistantMessage))
  /\ completionPending' = FALSE

(* sendMessage after the completion call rejected: the catch block logs    *)
(* and rethrows                                                            *)
sendMessageFailed(error) ==
  /\ completionPending
  /\ completionPending' = FALSE
  /\ UNCHANGED conversationHistory

(* VoiceAssistant and its services as constructed, start() about to call   *)
(* processVoiceInput for the first time: no continuous stream and no       *)
(* listener yet.  The listener's fields are shown as its constructor will  *)
(* set them.                                                               *)
SessionStart(threshold, duration) ==
  /\ volumeThreshold = threshold
  /\ silenceDuration = duration
  /\ chunkBuffer = <<>>
  /\ silenceStartTime = NoTime
  /\ isProcessing = FALSE
  /\ mode = "wake_word"
  /\ currentResolver = NoReq
  /\ currentRejector = NoReq
  /\ chunkCount = 0
  /\ hasReceivedAudio = FALSE
  /\ now = 0
  /\ streamPos = 0
  /\ inflight = {}
  /\ nextTid = 1
  /\ promises = [r \in ReqIds |-> NoPromise]
  /\ nextReq = 1
  /\ speechSinceBoundary = FALSE
  /\ speechSinceEntry = FALSE
  /\ wakeFailed = FALSE
  /\ settlement = NoSettlement
  /\ quietSeen = FALSE
  /\ runStart = 0
  /\ lastBoundaryAt = 0
  /\ chunksSinceEntry = 0
  /\ interrupted = FALSE
  /\ pc = "start"
  /\ continuousStream = 0
  /\ continuousListener = FALSE
  /\ streamsCreated = 0
  /\ handlersAttached = 0
  /\ recording = "none"
  /\ stopTimers = 0
  /\ continuousStopped = FALSE
  /\ streamFailed = FALSE
  /\ userText = <<>>
  /\ userResponse = <<>>
  /\ sentences = <<>>
  /\ sentenceIndex = 0
  /\ shouldContinueSpeaking = TRUE
  /\ spoken = <<>>
  /\ prompts = <<>>
  /\ caught = "none"
  /\ conversationHistory = <<SystemMessage>>
  /\ completionPending = FALSE

SessionInit ==
  \E threshold \in Thresholds, duration \in SilenceDurations : SessionStart(threshold, duration)

(* The listen request the orchestrator made last *)
CycleRequest == nextReq - 1

(* The promise the orchestrator awaits has settled: its continuation runs  *)
(* before any other event is handled                                       *)
Resumable ==
  /\ pc \in {"await_wake", "await_command"}
  /\ promises[CycleRequest].status # "pending"

(* A speak call of the fixed text `say`, and of a chunk of the reply *)
Utterance(say) == [say |-> say, text |-> <<>>, first |-> 0, count |-> 0]
ReplyChunk(chunk, first, count) == [say |-> "reply", text |-> chunk, first |-> first, count |-> count]

(* The orchestrator runs and touches nothing of the listener *)
ListenerUntouched ==
  /\ settlement' = NoSettlement
  /\ UNCHANGED <<configVars, listenerVars, now, streamPos, inflight, nextTid, promises,
                 nextReq, speechSinceBoundary, speechSinceEntry, wakeFailed, detectorHistory>>

(* processVoiceInput returns (error = "none") or its catch block has       *)
(* logged `error`: start() goes into its pause                             *)
cycleEnds(error) ==
  /\ pc' = "cycle_pause"
  /\ caught' = error
  /\ sentences' = <<>>
  /\ sentenceIndex' = 0
  /\ shouldContinueSpeaking' = TRUE

(* Faulty variant: the stream and the listener are made anew on every call *)
startContinuousAlways ==
  /\ continuousStream' = streamsCreated + 1
  /\ continuousListener' = TRUE
  /\ streamsCreated' = streamsCreated + 1
  /\ handlersAttached' = handlersAttached + 1
  /\ recording' = "continuous"

(* `if (!this.continuousStream || !this.continuousListener)` of            *)
(* VoiceAssistant.listenForWakeWord: startContinuousRecording, which sets  *)
(* AudioInputService.recording, the new listener and its startListening    *)
startContinuous ==
  IF continuousStream = 0 \/ ~continuousListener
  THEN /\ continuousStream' = streamsCreated + 1
       /\ continuousListener' = TRUE
       /\ streamsCreated' = streamsCreated + 1
       /\ handlersAttached' = handlersAttached + 1
       /\ recording' = "continuous"
  ELSE UNCHANGED <<continuousStream, continuousListener, streamsCreated, handlersAttached,
                   recording>>

(* VoiceAssistant.listenForWakeWord up to its await: the first statement   *)
(* of processVoiceInput                                                    *)
callListenForWakeWord ==
  /\ startContinuous
  /\ listenForWakeWord
  /\ pc' = "await_wake"
  /\ userText' = <<>>
  /\ userResponse' = <<>>
  /\ spoken' = <<>>
  /\ prompts' = <<>>
  /\ UNCHANGED <<stopTimers, continuousStopped, streamFailed, sentences, sentenceIndex,
                 shouldContinueSpeaking, caught>>
  /\ UNCHANGED chatVars

(* start() calls processVoiceInput for the first time *)
sessionStart ==
  /\ pc = "start"
  /\ callListenForWakeWord

(* The pause of start() is over: the next processVoiceInput *)
cyclePauseElapsed ==
  /\ pc = "cycle_pause"
  /\ callListenForWakeWord

(* Faulty variant: the orchestrator goes on without awaiting the wake-word listen *)
wakeListenEndedWithoutAwait ==
  /\ pc = "await_wake"
  /\ pc' = "speak_yes"
  /\ spoken' = Append(spoken, Utterance("Yes"))
  /\ ListenerUntouched
  /\ UNCHANGED <<captureVars, streamFailed, playbackVars, prompts, caught>>
  /\ UNCHANGED chatVars

(* VoiceAssistant.listenForWakeWord returns, true after fulfilment and     *)
(* false from its catch block; processVoiceInput drops the value and calls *)
(* speak('Yes')                                                            *)
wakeListenEnded ==
  /\ pc = "await_wake"
  /\ promises[CycleRequest].status # "pending"
  /\ pc' = "speak_yes"
  /\ spoken' = Append(spoken, Utterance("Yes"))
  /\ ListenerUntouched
  /\ UNCHANGED <<captureVars, streamFailed, playbackVars, prompts, caught>>
  /\ UNCHANGED chatVars

(* speak('Yes') completes: the 500 ms pause starts *)
speakYesDone ==
  /\ pc = "speak_yes"
  /\ pc' = "settle_pause"
  /\ ListenerUntouched
  /\ UNCHANGED <<captureVars, streamFailed, playbackVars, cycleHistory>>
  /\ UNCHANGED chatVars

(* speak('Yes') fails: the catch block of processVoiceInput ends the cycle *)
speakYesFailed ==
  /\ pc = "speak_yes"
  /\ cycleEnds("synthesis")
  /\ ListenerUntouched
  /\ UNCHANGED <<captureVars, streamFailed, userText, userResponse, spoken, prompts>>
  /\ UNCHANGED chatVars

(* The pause is over: processVoiceInput calls listenForCommand *)
settlePauseElapsed ==
  /\ pc = "settle_pause"
  /\ pc' = "await_command"
  /\ listenForCommand
  /\ UNCHANGED <<captureVars, streamFailed, playbackVars, cycleHistory>>
  /\ UNCHANGED chatVars

(* The top of the playback loop with sentenceIndex idx and                 *)
(* shouldContinueSpeaking cont: the next chunk of up to two sentences is   *)
(* handed to speak, or the loop is left and processVoiceInput returns      *)
playbackLoop(sents, idx, cont) ==
  IF cont /\ idx < Len(sents)
  THEN LET pair == slice(sents, idx, idx + 2)
       IN  /\ pc' = "speak_reply"
           /\ spoken' = Append(spoken, ReplyChunk(join(pair), idx + 1, Len(pair)))
           /\ sentences' = sents
           /\ sentenceIndex' = idx
           /\ shouldContinueSpeaking' = cont
           /\ UNCHANGED caught
  ELSE /\ cycleEnds("none")
       /\ UNCHANGED spoken

(* The statements after `await listenForCommand()` up to the next await:   *)
(* a rejection goes to the catch block, blank text to the apology, other   *)
(* text to chatGPT.sendMessage or, in test mode, to the echo and the       *)
(* playback loop                                                           *)
commandListenEnded ==
  /\ pc = "await_command"
  /\ promises[CycleRequest].status # "pending"
  /\ IF promises[CycleRequest].status = "rejected"
     THEN /\ cycleEnds("listen")
          /\ UNCHANGED <<userText, spoken, prompts, chatVars>>
     ELSE LET text == settlement.value
          IN  IF isBlank(text)
              THEN /\ pc' = "speak_apology"
                   /\ userText' = text
                   /\ spoken' = Append(spoken, Utterance("I didn't hear anything"))
                   /\ UNCHANGED <<sentences, sentenceIndex, shouldContinueSpeaking, prompts, caught,
                                  chatVars>>
              ELSE \E testMode \in BOOLEAN :
                     IF testMode
                     THEN /\ playbackLoop(splitSentences(EchoPrefix \o text), 0, TRUE)
                          /\ userText' = text
                          /\ UNCHANGED <<prompts, chatVars>>
                     ELSE /\ pc' = "await_reply"
                          /\ userText' = text
                          /\ prompts' = Append(prompts, text)
                          /\ sendMessage(text)
                          /\ UNCHANGED <<sentences, sentenceIndex, shouldContinueSpeaking,
                                         spoken, caught>>
  /\ ListenerUntouched
  /\ UNCHANGED <<captureVars, streamFailed, userResponse>>

(* speak("I didn't hear anything") completes: processVoiceInput returns *)
speakApologyDone ==
  /\ pc = "speak_apology"
  /\ cycleEnds("none")
  /\ ListenerUntouched
  /\ UNCHANGED <<captureVars, streamFailed, userText, userResponse, spoken, prompts>>
  /\ UNCHANGED chatVars

(* chatGPT.sendMessage returns assistantResponse: it is split and the      *)
(* playback loop is entered                                                *)
replyReturned(assistantResponse) ==
  /\ pc = "await_reply"
  /\ playbackLoop(splitSentences(assistantResponse), 0, TRUE)
  /\ ListenerUntouched
  /\ UNCHANGED <<captureVars, streamFailed, userText, userResponse, prompts>>
  /\ sendMessageReturned(assistantResponse)

(* Faulty variant: the rejection leaves processVoiceInput and start(), and *)
(* main() ends the process                                                 *)
replyFailedExits(error) ==
  /\ pc = "await_reply"
  /\ pc' = "exited"
  /\ ListenerUntouched
  /\ UNCHANGED <<captureVars, streamFailed, playbackVars, cycleHistory>>
  /\ sendMessageFailed(error)

(* chatGPT.sendMessage rejects *)
replyFailed(error) ==
  /\ pc = "await_reply"
  /\ cycleEnds("generation")
  /\ ListenerUntouched
  /\ UNCHANGED <<captureVars, streamFailed, userText, userResponse, spoken, prompts>>
  /\ sendMessageFailed(error)

(* Faulty variant: `sentenceIndex += 1` after a chunk of two sentences *)
replySpokenAdvancesOne ==
  /\ pc = "speak_reply"
  /\ IF sentenceIndex + 1 < Len(sentences)
     THEN /\ pc' = "ask_continue"
          /\ sentenceIndex' = sentenceIndex + 1
          /\ spoken' = Append(spoken, Utterance("Should I continue?"))
          /\ UNCHANGED <<sentences, shouldContinueSpeaking, caught>>
     ELSE playbackLoop(sentences, sentenceIndex + 1, shouldContinueSpeaking)
  /\ ListenerUntouched
  /\ UNCHANGED <<captureVars, streamFailed, userText, userResponse, prompts>>
  /\ UNCHANGED chatVars

(* speak(chunk) completes: sentenceIndex += 2, then the question if        *)
(* sentences remain, else the top of the loop                              *)
replySpoken ==
  /\ pc = "speak_reply"
  /\ IF sentenceIndex + 2 < Len(sentences)
     THEN /\ pc' = "ask_continue"
          /\ sentenceIndex' = sentenceIndex + 2
          /\ spoken' = Append(spoken, Utterance("Should I continue?"))
          /\ UNCHANGED <<sentences, shouldContinueSpeaking, caught>>
     ELSE playbackLoop(sentences, sentenceIndex + 2, shouldContinueSpeaking)
  /\ ListenerUntouched
  /\ UNCHANGED <<captureVars, streamFailed, userText, userResponse, prompts>>
  /\ UNCHANGED chatVars

(* AudioInputService.startRecording: the handle of the new recording       *)
(* replaces whatever this.recording held                                   *)
startRecording == recording' = "confirm"

(* AudioInputService.stopRecording *)
stopRecording ==
  IF recording # "none"
  THEN /\ continuousStopped' = (continuousStopped \/ recording = "continuous")
       /\ recording' = "none"
  ELSE UNCHANGED <<continuousStopped, recording>>

(* speak('Should I continue?') completes: the confirmation capture is      *)
(* started, handed to recognizeStream and given its 3000 ms timer          *)
askSpoken ==
  /\ pc = "ask_continue"
  /\ pc' = "await_confirm"
  /\ startRecording
  /\ stopTimers' = stopTimers + 1
  /\ ListenerUntouched
  /\ UNCHANGED <<continuousStream, continuousListener, streamsCreated, handlersAttached,
                 continuousStopped, streamFailed, playbackVars, cycleHistory>>
  /\ UNCHANGED chatVars

(* A 3000 ms timer of a confirmation capture fires *)
stopTimerFired ==
  /\ stopTimers > 0
  /\ stopTimers' = stopTimers - 1
  /\ stopRecording
  /\ ListenerUntouched
  /\ UNCHANGED <<pc, continuousStream, continuousListener, streamsCreated, handlersAttached,
                 streamFailed, playbackVars, cycleHistory>>
  /\ UNCHANGED chatVars

(* recognizeStream(confirmStream) resolves with transcription, which it   *)
(* does once its stream has ended: an affirmative answer goes to the top   *)
(* of the loop, any other to speak('Okay, stopping here.')                 *)
confirmReturned(transcription) ==
  /\ pc = "await_confirm"
  /\ recording # "confirm"
  /\ IF isAffirmative(transcription)
     THEN playbackLoop(sentences, sentenceIndex, TRUE)
     ELSE /\ pc' = "speak_stop"
          /\ shouldContinueSpeaking' = FALSE
          /\ spoken' = Append(spoken, Utterance("Okay, stopping here."))
          /\ UNCHANGED <<sentences, sentenceIndex, caught>>
  /\ ListenerUntouched
  /\ userResponse' = transcription
  /\ UNCHANGED <<captureVars, streamFailed, userText, prompts>>
  /\ UNCHANGED chatVars

(* recognizeStream(confirmStream) rejects *)
confirmFailed(error) ==
  /\ pc = "await_confirm"
  /\ cycleEnds("confirmation")
  /\ ListenerUntouched
  /\ UNCHANGED <<captureVars, streamFailed, userText, userResponse, spoken, prompts>>
  /\ UNCHANGED chatVars

(* speak('Okay, stopping here.') completes: the top of the loop *)
stopSpoken ==
  /\ pc = "speak_stop"
  /\ playbackLoop(sentences, sentenceIndex, shouldContinueSpeaking)
  /\ ListenerUntouched
  /\ UNCHANGED <<captureVars, streamFailed, userText, userResponse, prompts>>
  /\ UNCHANGED chatVars

(* A speak call after the command listen rejects *)
speakFailed(error) ==
  /\ pc \in {"speak_apology", "speak_reply", "ask_continue", "speak_stop"}
  /\ cycleEnds("synthesis")
  /\ ListenerUntouched
  /\ UNCHANGED <<captureVars, streamFailed, userText, userResponse, spoken, prompts>>
  /\ UNCHANGED chatVars

(* The chunks of a session: at most MaxWakeChunks of them reach a listener *)
(* in wake-word mode, at most MaxSessionChunks reach it at all             *)
sessionData(peak) ==
  /\ streamPos < (IF mode = "wake_word" THEN MaxWakeChunks ELSE MaxSessionChunks)
  /\ handleChunk(peak)
  /\ UNCHANGED sessionVars
  /\ UNCHANGED chatVars

sessionStreamError(error) ==
  /\ streamError(error)
  /\ streamFailed' = TRUE
  /\ UNCHANGED <<pc, captureVars, playbackVars, cycleHistory>>
  /\ UNCHANGED chatVars

OrchestratorNext ==
  \/ sessionStart
  \/ cyclePauseElapsed
  \/ wakeListenEnded
  \/ speakYesDone
  \/ speakYesFailed
  \/ settlePauseElapsed
  \/ commandListenEnded
  \/ speakApologyDone
  \/ \E assistantResponse \in Replies : replyReturned(assistantResponse)
  \/ \E error \in GenerationErrors : replyFailed(error)
  \/ replySpoken
  \/ askSpoken
  \/ \E transcription \in Answers : confirmReturned(transcription)
  \/ \E error \in TranscriptionErrors : confirmFailed(error)
  \/ stopSpoken
  \/ \E error \in SynthesisErrors : speakFailed(error)

EnvironmentNext ==
  \/ \E peak \in Peaks : sessionData(peak)
  \/ \E error \in StreamErrors : sessionStreamError(error)
  \/ stopTimerFired
  \/ /\ UNCHANGED sessionVars
     /\ \/ \E t \in inflight, transcription \in Transcripts : processWakeWordReturned(t, transcription)
        \/ \E t \in inflight, error \in TranscriptionErrors : processWakeWordFailed(t, error)
        \/ \E t \in inflight, transcription \in Transcripts : processCommandReturned(t, transcription)
        \/ \E t \in inflight, error \in TranscriptionErrors : processCommandFailed(t, error)

SessionNext ==
  \/ OrchestratorNext
  \/ /\ ~Resumable
     /\ continuousListener
     /\ EnvironmentNext

SessionSpec == SessionInit /\ [][SessionNext]_vars

(* A recognizeStream call of the listener settles *)
transcriptionSettles ==
  /\ ~Resumable
  /\ UNCHANGED sessionVars
  /\ \/ \E t \in inflight, transcription \in Transcripts : processWakeWordReturned(t, transcription)
     \/ \E t \in inflight, error \in TranscriptionErrors : processWakeWordFailed(t, error)
     \/ \E t \in inflight, transcription \in Transcripts : processCommandReturned(t, transcription)
     \/ \E t \in inflight, error \in TranscriptionErrors : processCommandFailed(t, error)

(* The session with what the runtime and the collaborators guarantee: a    *)
(* continuation that can run does run, timers fire, and every call of      *)
(* speak, sendMessage and recognizeStream settles.  Nothing makes the      *)
(* stream deliver a chunk or an error.                                     *)
SessionLiveSpec ==
  /\ SessionSpec
  /\ WF_vars(OrchestratorNext)
  /\ WF_vars(transcriptionSettles)
  /\ WF_vars(stopTimerFired)

(* The playback of one reply on its own.  The state after the first cycle  *)
(* of a session heard the wake word and a command and handed the command   *)
(* to chatGPT.sendMessage: 4 chunks for the wake word, then the command    *)
(* listen's 5 skipped chunks, a chunk at or above the threshold and three  *)
(* below it.                                                               *)
PlaybackStart(threshold, duration, command) ==
  /\ volumeThreshold = threshold
  /\ silenceDuration = duration
  /\ chunkBuffer = <<>>
  /\ silenceStartTime = ArrivalTime(11)
  /\ isProcessing = TRUE
  /\ mode = "command"
  /\ currentResolver = NoReq
  /\ currentRejector = NoReq
  /\ chunkCount = 9
  /\ hasReceivedAudio = TRUE
  /\ now = ArrivalTime(13)
  /\ streamPos = 13
  /\ inflight = {}
  /\ nextTid = 3
  /\ promises = [r \in ReqIds |-> IF r <= 2 THEN [status |-> "resolved", calls |-> 1] ELSE NoPromise]
  /\ nextReq = 3
  /\ speechSinceBoundary = FALSE
  /\ speechSinceEntry = TRUE
  /\ wakeFailed = FALSE
  /\ settlement = NoSettlement
  /\ quietSeen = TRUE
  /\ runStart = 11
  /\ lastBoundaryAt = 13
  /\ chunksSinceEntry = 6
  /\ interrupted = FALSE
  /\ pc = "await_reply"
  /\ continuousStream = 1
  /\ continuousListener = TRUE
  /\ streamsCreated = 1
  /\ handlersAttached = 1
  /\ recording = "continuous"
  /\ stopTimers = 0
  /\ continuousStopped = FALSE
  /\ streamFailed = FALSE
  /\ userText = command
  /\ userResponse = <<>>
  /\ sentences = <<>>
  /\ sentenceIndex = 0
  /\ shouldContinueSpeaking = TRUE
  /\ spoken = <<Utterance("Yes")>>
  /\ prompts = <<command>>
  /\ caught = "none"
  /\ conversationHistory = <<SystemMessage, UserMessage(command)>>
  /\ completionPending = TRUE

PlaybackInit ==
  \E threshold \in Thresholds, duration \in SilenceDurations, command \in {T_Hi, T_HeyIsis} :
    PlaybackStart(threshold, duration, command)

(* processVoiceInput from the return of sendMessage to its own return *)
PlaybackNext ==
  \/ \E assistantResponse \in Replies : replyReturned(assistantResponse)
  \/ \E error \in GenerationErrors : replyFailed(error)
  \/ replySpoken
  \/ askSpoken
  \/ stopTimerFired
  \/ \E transcription \in Answers : confirmReturned(transcription)
  \/ \E error \in TranscriptionErrors : confirmFailed(error)
  \/ stopSpoken
  \/ \E error \in SynthesisErrors : speakFailed(error)

(* Every speak, sendMessage and recognizeStream call settles and the       *)
(* timers fire                                                             *)
PlaybackSpec ==
  /\ PlaybackInit
  /\ [][PlaybackNext]_vars
  /\ WF_vars(PlaybackNext)

(* The chat service on its own, called the way processVoiceInput calls it: *)
(* the next sendMessage only after the previous one has settled.           *)
voiceVars == <<configVars, listenerVars, now, streamPos, inflight, nextTid, promises,
               settlement, nextReq, speechSinceBoundary, speechSinceEntry, wakeFailed,
               detectorHistory, pc, captureVars, streamFailed, playbackVars, cycleHistory>>

ChatNext ==
  /\ \/ \E userMessage \in UserMessages :
          /\ ~completionPending
          /\ Len(conversationHistory) < MaxMessages
          /\ sendMessage(userMessage)
     \/ \E assistantMessage \in Replies : sendMessageReturned(assistantMessage)
     \/ \E error \in GenerationErrors : sendMessageFailed(error)
  /\ UNCHANGED voiceVars

ChatSpec == SessionInit /\ [][ChatNext]_vars

(* An invariant of SessionSpec: when the orchestrator resumes from a       *)
(* fulfilled listen, the value it receives is the one the last step passed *)
(* to the resolve function                                                 *)
SessionTypeOK ==
  /\ pc \in {"start", "await_wake", "speak_yes", "settle_pause", "await_command",
              "speak_apology", "await_reply", "speak_reply", "ask_continue", "await_confirm",
              "speak_stop", "cycle_pause"}
  /\ recording \in {"none", "continuous", "confirm"}
  /\ stopTimers \in 0..MaxRequests
  /\ sentenceIndex \in 0..Len(sentences)
  /\ (Resumable /\ promises[CycleRequest].status = "resolved") =>
       (settlement.kind = "resolved" /\ settlement.req = CycleRequest)

----------------------------------------------------------------------------
(* Vocabulary of the properties *)

Slot == <<currentResolver, currentRejector>>

Outstanding(r) == r # NoReq /\ promises[r].status = "pending"

(* The kind of the latest listen request: a listen call sets mode and the  *)
(* slot together, and nothing else sets mode.                              *)
RequestMode == mode

(* The text, lower-cased, contains "isis" or "ice is" *)
ContainsWakePhrase(text) ==
  \/ includes(toLowerCase(text), <<"i", "s", "i", "s">>)
  \/ includes(toLowerCase(text), <<"i", "c", "e", " ", "i", "s">>)

(* This step handles a chunk that is not skipped *)
ChunkHandled ==
  /\ \E peak \in Peaks : handleChunk(peak)
  /\ chunkCount' # 1
  /\ ~(mode = "command" /\ chunkCount' <= CommandSkipChunks)

(* This step is a boundary: a handled chunk below the threshold whose      *)
(* elapsed silence is at least silenceDuration                             *)
BoundaryFires ==
  /\ \E peak \in Peaks : handleChunk(peak) /\ peak < volumeThreshold
  /\ chunkCount' # 1
  /\ ~(mode = "command" /\ chunkCount' <= CommandSkipChunks)
  /\ silenceStartTime # NoTime
  /\ now' - silenceStartTime >= silenceDuration

(* This step starts a recognizeStream call *)
Dispatches == nextTid' # nextTid

----------------------------------------------------------------------------
(* C1: every call of a request's resolve or reject function is the first   *)
(* one for that request, is made through the slot, and leaves both         *)
(* currentResolver and currentRejector null in the same step; the two are  *)
(* never null one without the other.                                       *)
C1_SettledAtMostOnce ==
  [][/\ (currentResolver' = NoReq) <=> (currentRejector' = NoReq)
     /\ \A r \in ReqIds :
          promises'[r].calls # promises[r].calls =>
            /\ promises[r].calls = 0
            /\ promises'[r].calls = 1
            /\ currentResolver = r
            /\ currentRejector = r
            /\ currentResolver' = NoReq
            /\ currentRejector' = NoReq]_vars

(* A request was settled while a transcription is still in flight and a    *)
(* later request is outstanding.                                           *)
C1_Witness ==
  \E r \in ReqIds :
    /\ promises[r].calls = 1
    /\ promises[r].status = "resolved"
    /\ inflight # {}
    /\ currentResolver \notin {NoReq, r}

(* C2: a wake-word listen request is never fulfilled by a transcript that  *)
(* does not contain the wake phrase.                                       *)
C2_WakeFulfilledOnlyByWakePhrase ==
  (RequestMode = "wake_word" /\ settlement.kind = "resolved")
    => ContainsWakePhrase(settlement.value)

(* C3: a command listen request is fulfilled only with the text of the     *)
(* transcription dispatched for it in command mode, and no second          *)
(* transcription is started for the same request.                          *)
C3_CommandFulfilledByItsOneTranscription ==
  /\ (RequestMode = "command" /\ settlement.kind = "resolved") =>
       (settlement.viaMode = "command" /\ settlement.viaReq = settlement.req)
  /\ \A r \in ReqIds :
       Cardinality({t \in inflight : t.mode = "command" /\ t.req = r}) <= 1

(* C4: at most one recognizeStream call started by the listener is in      *)
(* flight at any time.                                                     *)
C4_AtMostOneInFlight == Cardinality(inflight) <= 1

C6_BufferEmptyAfterBoundary ==
  [][BoundaryFires => chunkBuffer' = <<>>]_vars

(* C7: in wake-word mode with a request outstanding, a transcription that  *)
(* returns text containing the wake phrase fulfils the request with that   *)
(* text, unmodified.                                                       *)
C7_WakePhraseFulfils ==
  [][\A t \in inflight, text \in Transcripts :
       (/\ mode = "wake_word"
        /\ Outstanding(currentResolver)
        /\ ContainsWakePhrase(text)
        /\ processWakeWordReturned(t, text))
       => /\ promises'[currentResolver].status = "resolved"
          /\ settlement' = Resolved(currentResolver, text, t)
          /\ Slot' = <<NoReq, NoReq>>]_vars

(* A wake-word request fulfilled, by a transcription dispatched for it,    *)
(* with a transcript that has the phrase in upper case.                    *)
C7_Witness ==
  \E r \in ReqIds :
    /\ RequestMode = "wake_word"
    /\ promises[r].status = "resolved"
    /\ settlement.req = r
    /\ settlement.value = T_HeyIsis
    /\ settlement.viaReq = r

(* C8: a stream error with a request outstanding rejects that request with *)
(* the same error and clears the slot; with no request outstanding it      *)
(* changes nothing of the listener.                                        *)
C8_StreamErrorRejects ==
  [][\A error \in StreamErrors :
       streamError(error) =>
         IF currentRejector # NoReq
         THEN /\ promises'[currentRejector].status = "rejected"
              /\ settlement' = Rejected(currentRejector, error, "stream")
              /\ Slot' = <<NoReq, NoReq>>
         ELSE UNCHANGED <<listenerVars, promises, inflight>>]_vars

(* A request rejected by a stream error, the slot cleared.                 *)
C8_Witness ==
  \E r \in ReqIds :
    /\ promises[r].status = "rejected"
    /\ settlement = Rejected(r, "ENODEV", "stream")
    /\ Slot = <<NoReq, NoReq>>

(* C9: in command mode, when the transcription fails while the command     *)
(* request is outstanding, the request is rejected with that error and the *)
(* slot is cleared.                                                        *)
C9_CommandFailureRejects ==
  [][\A t \in inflight, error \in TranscriptionErrors :
       (/\ mode = "command"
        /\ Outstanding(currentRejector)
        /\ processCommandFailed(t, error))
       => /\ promises'[currentRejector].status = "rejected"
          /\ settlement' = Rejected(currentRejector, error, "command")
          /\ Slot' = <<NoReq, NoReq>>]_vars

(* A command request rejected with a transcription error.                  *)
C9_Witness ==
  \E r \in ReqIds :
    /\ RequestMode = "command"
    /\ promises[r].status = "rejected"
    /\ settlement = Rejected(r, "WhisperTimeout", "command")

(* C10: in wake-word mode a failed transcription settles nothing: the      *)
(* request stays outstanding in the slot and isProcessing is false again.  *)
C10_WakeFailureSwallowed ==
  [][\A t \in inflight, error \in TranscriptionErrors :
       (/\ mode = "wake_word"
        /\ Outstanding(currentResolver)
        /\ processWakeWordFailed(t, error))
       => /\ promises' = promises
          /\ settlement' = NoSettlement
          /\ Slot' = Slot
          /\ isProcessing' = FALSE
          /\ mode' = mode]_vars

(* With no listen call after the first, so that every transcription was   *)
(* dispatched for request 1 and one after the other: a transcription       *)
(* failed, and the latest one fulfilled the request with the wake phrase.  *)
C10_Witness ==
  /\ wakeFailed
  /\ nextReq = 2
  /\ mode = "wake_word"
  /\ promises[1].status = "resolved"
  /\ settlement.req = 1
  /\ settlement.viaReq = 1
  /\ settlement.viaTid = nextTid - 1
  /\ settlement.viaTid > 1
  /\ ContainsWakePhrase(settlement.value)

(* C11: in wake-word mode a transcript without the wake phrase leaves the  *)
(* request outstanding in the slot and the mode as it was, and the buffer  *)
(* holds only chunks that arrived after the most recent boundary.          *)
C11_WakeLoopKeepsRequestAndBoundedBuffer ==
  [][/\ \A t \in inflight, text \in Transcripts :
          (/\ mode = "wake_word"
           /\ Outstanding(currentResolver)
           /\ ~ContainsWakePhrase(text)
           /\ processWakeWordReturned(t, text))
          => /\ promises' = promises
             /\ Slot' = Slot
             /\ mode' = "wake_word"
     /\ mode' = "wake_word" =>
          \A i \in 1..Len(chunkBuffer') : chunkBuffer'[i] > lastBoundaryAt']_vars

(* C12: the mode changes only in a step of listenForWakeWord or            *)
(* listenForCommand: a chunk, a boundary, a transcription that returns or  *)
(* fails, a fulfilled request and a stream error leave it as it was.       *)
C12_ModeChangesOnlyInListenCalls ==
  [][mode' # mode => (listenForWakeWord \/ listenForCommand)]_vars

(* A command request fulfilled by the transcription a boundary dispatched  *)
(* in command mode, the mode still command.                                *)
C12_Witness ==
  /\ mode = "command"
  /\ lastBoundaryAt # 0
  /\ settlement.kind = "resolved"
  /\ settlement.viaMode = "command"

(* The listener as a listen call in mode m leaves it, the slot aside *)
JustEntered(m) ==
  /\ mode = m
  /\ chunkBuffer = <<>>
  /\ silenceStartTime = NoTime
  /\ isProcessing = FALSE
  /\ hasReceivedAudio = FALSE
  /\ m = "command" => chunkCount = 0

(* C13: a listen call leaves the buffer empty, the silence timer unset and *)
(* hasReceivedAudio false; made again on the state it left, it changes     *)
(* nothing but the slot; and nothing of the listen before it is left to    *)
(* act on the chunks that follow: no transcription is in flight whose      *)
(* continuation will write isProcessing or the slot.  (The chunk count,    *)
(* which listenForWakeWord also leaves as it was, is the subject of C14.)  *)
C13_ListenCallResetsEverything ==
  [][(listenForWakeWord \/ listenForCommand) =>
       /\ chunkBuffer' = <<>>
       /\ silenceStartTime' = NoTime
       /\ hasReceivedAudio' = FALSE
       /\ (listenForWakeWord /\ JustEntered("wake_word")) =>
            UNCHANGED <<mode, chunkBuffer, silenceStartTime, isProcessing,
                        hasReceivedAudio, chunkCount>>
       /\ (listenForCommand /\ JustEntered("command")) =>
            UNCHANGED <<mode, chunkBuffer, silenceStartTime, isProcessing,
                        hasReceivedAudio, chunkCount>>
       /\ inflight' = {}]_vars

(* This step delivers a chunk *)
ChunkDelivered == \E peak \in Peaks : handleChunk(peak)

(* This step delivers a chunk that is skipped: it is not buffered and      *)
(* neither the silence timer nor the speech flag nor a transcription sees  *)
(* it                                                                      *)
ChunkSkipped ==
  /\ ChunkDelivered
  /\ UNCHANGED <<chunkBuffer, silenceStartTime, hasReceivedAudio, isProcessing, inflight,
                 runStart, lastBoundaryAt>>

C15_NoBoundaryWithoutQuietChunk ==
  /\ volumeThreshold = 0 => ~quietSeen
  /\ ~quietSeen =>
       /\ lastBoundaryAt = 0
       /\ silenceStartTime = NoTime
       /\ nextTid = 1
       /\ inflight = {}
       /\ \A r \in ReqIds : promises[r].status # "resolved"

(* With volumeThreshold = 0, chunks were buffered for longer than          *)
(* silenceDuration and nothing was dispatched.                             *)
C15_Witness ==
  /\ volumeThreshold = 0
  /\ Len(chunkBuffer) * ChunkIntervalMs > 2 * silenceDuration
  /\ nextTid = 1

(* The silence, at the chunk this step handles, of the run of              *)
(* below-threshold chunks that chunk belongs to: the time since the run's  *)
(* first chunk arrived                                                     *)
CumulativeSilence == now' - ArrivalTime(runStart')

(* This step handles the first chunk of its run at which the cumulative    *)
(* silence reaches silenceDuration                                         *)
FirstReachesSilenceDuration ==
  /\ CumulativeSilence >= silenceDuration
  /\ CumulativeSilence - ChunkIntervalMs < silenceDuration

(* This step handles a below-threshold chunk of a run that follows at      *)
(* least one chunk at or above the threshold                               *)
InSilenceRunAfterSpeech == ChunkHandled /\ runStart' # 0 /\ speechSinceEntry

(* C16 as stated: in a run of below-threshold chunks after speech, a       *)
(* boundary fires at the first chunk at which the cumulative silence       *)
(* reaches silenceDuration and at no other chunk of the run.               *)
C16_ExactlyOneBoundaryPerRun ==
  [][InSilenceRunAfterSpeech => (BoundaryFires <=> FirstReachesSilenceDuration)]_vars

(* C16 amended: the first boundary of the run fires at the first chunk at  *)
(* which the cumulative silence reaches silenceDuration, and no boundary   *)
(* fires before that chunk.                                                *)
C16_FirstBoundaryAtFirstReach ==
  [][InSilenceRunAfterSpeech =>
       /\ lastBoundaryAt < runStart' => (BoundaryFires <=> FirstReachesSilenceDuration)
       /\ BoundaryFires => CumulativeSilence >= silenceDuration]_vars

(* The first boundary of a run after speech has just fired and dispatched  *)
(* the first transcription, at the first chunk whose cumulative silence    *)
(* reached silenceDuration.                                                *)
C16_Witness ==
  /\ speechSinceEntry
  /\ runStart # 0
  /\ lastBoundaryAt = streamPos
  /\ now - ArrivalTime(runStart) >= silenceDuration
  /\ now - ArrivalTime(runStart) - ChunkIntervalMs < silenceDuration
  /\ nextTid = 2
  /\ \E t \in inflight : t.audio[Len(t.audio)] = streamPos

(* C17: a handled chunk at or above the threshold unsets the silence timer *)
(* and is no boundary, and a boundary fires only when the run of           *)
(* below-threshold chunks since the last such chunk has lasted             *)
(* silenceDuration: silence from before the interruption does not count.   *)
C17_InterruptionRestartsCountdown ==
  [][streamPos' # streamPos =>
       /\ (runStart' = 0 /\ ChunkHandled) =>
            (silenceStartTime' = NoTime /\ ~Dispatches /\ ~BoundaryFires)
       /\ (silenceStartTime # NoTime /\ BoundaryFires) =>
            (runStart' # 0 /\ now' - ArrivalTime(runStart') >= silenceDuration)]_vars

(* A run of below-threshold chunks was interrupted, and the first boundary *)
(* has only now fired, a full silenceDuration after the run that followed  *)
(* the interruption began.                                                 *)
C17_Witness ==
  /\ interrupted
  /\ runStart > 3
  /\ lastBoundaryAt = streamPos
  /\ now - ArrivalTime(runStart) >= silenceDuration
  /\ nextTid = 2
  /\ nextReq = 2
  /\ \E t \in inflight : Len(t.audio) * ChunkIntervalMs > 2 * silenceDuration

(* C19: silenceStartTime is null whenever the most recently handled chunk  *)
(* had a peak at or above the threshold (or none was handled since the     *)
(* listen call); while it is set, the latest handled chunks are a run of   *)
(* below-threshold chunks and it is no earlier than that run's first.      *)
C19_TimerSetOnlyInSilenceRun ==
  /\ runStart = 0 => silenceStartTime = NoTime
  /\ silenceStartTime # NoTime => silenceStartTime >= ArrivalTime(runStart)

(* The chunk just handled reached the threshold and ended a run of         *)
(* below-threshold chunks: it is buffered and the timer is unset.          *)
C19_Witness ==
  /\ interrupted
  /\ runStart = 0
  /\ silenceStartTime = NoTime
  /\ chunkBuffer # <<>>
  /\ chunkBuffer[Len(chunkBuffer)] = streamPos
  /\ Len(chunkBuffer) >= 3

(* The chunk at which the scenario's silence reaches silenceDuration: the  *)
(* first below-threshold chunk starts the timer, and the boundary is the   *)
(* first chunk silenceDuration or more after it (chunk 36 for 20 chunks at *)
(* or above the threshold, 1.5 s and 100 ms).                              *)
ScenarioBoundaryChunk ==
  ScenarioLoudChunks + 1 + (DefaultSilenceMs + ChunkIntervalMs - 1) \div ChunkIntervalMs

(* The first chunk of the scenario that is not skipped *)
ScenarioFirstBuffered == IF mode = "wake_word" THEN 2 ELSE CommandSkipChunks + 1

(* This step is a boundary at chunk n that hands chunks ScenarioFirstBuffered to n, *)
(* in order, to recognizeStream                                            *)
BoundaryAtChunkWithBuffer(n) ==
  /\ BoundaryFires
  /\ streamPos' = n
  /\ \E t \in inflight' \ inflight :
       t.audio = [i \in 1..(n - ScenarioFirstBuffered + 1) |-> ScenarioFirstBuffered + i - 1]

(* C18 as stated: the boundary fires at chunk 35 (the chunk before         *)
(* ScenarioBoundaryChunk), the buffer holding every chunk handled up to it.*)
C18_BoundaryAtChunk35 ==
  [][(ChunkDelivered /\ streamPos' = ScenarioBoundaryChunk - 1) =>
       BoundaryAtChunkWithBuffer(ScenarioBoundaryChunk - 1)]_vars

(* C18 amended: the boundary fires at chunk 36 (ScenarioBoundaryChunk) and *)
(* at no chunk before it, the buffer holding every chunk handled up to it: *)
(* chunks 2 to 36 in wake-word mode, 6 to 36 in command mode.              *)
C18_BoundaryAtChunk36 ==
  [][(ChunkDelivered /\ streamPos' <= ScenarioBoundaryChunk) =>
       IF streamPos' = ScenarioBoundaryChunk
       THEN BoundaryAtChunkWithBuffer(ScenarioBoundaryChunk)
       ELSE ~BoundaryFires /\ ~Dispatches]_vars

(* The scenario in wake-word mode right after its boundary: chunks 2 to    *)
(* the boundary chunk are with recognizeStream and the buffer is empty.    *)
C18_Witness ==
  /\ mode = "wake_word"
  /\ streamPos = ScenarioBoundaryChunk
  /\ lastBoundaryAt = streamPos
  /\ chunkBuffer = <<>>
  /\ \E t \in inflight : Len(t.audio) = ScenarioBoundaryChunk - 1 /\ t.audio[1] = 2

(* C20: speak('Yes') starts only when the cycle's wake-word listen was     *)
(* fulfilled, listenForCommand is called only from the end of the pause,   *)
(* and the pause starts only when speak('Yes') has completed.              *)
C20_AckOnlyAfterWakeFulfilled ==
  [][/\ (pc' = "speak_yes" /\ pc # "speak_yes") =>
          promises[CycleRequest].status = "resolved"
     /\ listenForCommand => pc = "settle_pause"
     /\ (pc' = "settle_pause" /\ pc # "settle_pause") => pc = "speak_yes"]_vars

----------------------------------------------------------------------------
(* Properties of the session *)

(* The text is empty once trimmed *)
EmptyAfterTrimming(text) == trim(text) = <<>>

(* The orchestrator resumes from its await in this step *)
Resumes(at) == pc = at /\ pc' # at

(* The speak calls of the current cycle so far, by what was said *)
SaidSoFar == [i \in 1..Len(spoken) |-> spoken[i].say]

(* C21: when the command listen is fulfilled with text that is empty after *)
(* trimming, the next thing the orchestrator does is speak "I didn't hear  *)
(* anything", without calling chatGPT.sendMessage, and when that speak     *)
(* call ends the cycle ends; chatGPT.sendMessage is never called with text *)
(* that is empty after trimming.                                           *)
C21_BlankCommandApologises ==
  [][/\ (Resumes("await_command") /\ promises[CycleRequest].status = "resolved"
          /\ EmptyAfterTrimming(settlement.value)) =>
          /\ pc' = "speak_apology"
          /\ spoken' = Append(spoken, Utterance("I didn't hear anything"))
          /\ prompts' = prompts
     /\ Resumes("speak_apology") => (pc' = "cycle_pause" /\ prompts' = prompts)
     /\ Len(prompts') > Len(prompts) =>
          (prompts' = Append(prompts, settlement.value) /\ ~EmptyAfterTrimming(settlement.value))]_vars

(* A cycle has ended after the wake word, a command transcribed as the     *)
(* empty text and the apology, with no call of chatGPT.sendMessage         *)
C21_Witness ==
  /\ pc = "cycle_pause"
  /\ SaidSoFar = <<"Yes", "I didn't hear anything">>
  /\ prompts = <<>>
  /\ caught = "none"
  /\ promises[CycleRequest].status = "resolved"

(* The reply chunks spoken so far in the current cycle, in order *)
ReplyChunksSoFar == SelectSeq(spoken, LAMBDA u : u.say = "reply")

(* The orchestrator is in the playback loop *)
InPlayback == pc \in {"speak_reply", "ask_continue", "await_confirm", "speak_stop"}

(* The answer contains one of the affirmative tokens *)
ContainsAffirmativeToken(answer) ==
  \E token \in AffirmativeTokens : includes(trim(toLowerCase(answer)), token)

(* This step hands a chunk of the reply to speak *)
SpeaksReply == Len(spoken') > Len(spoken) /\ spoken'[Len(spoken')].say = "reply"

(* This step hands 'Should I continue?' to speak *)
AsksToContinue == Len(spoken') > Len(spoken) /\ spoken'[Len(spoken')].say = "Should I continue?"

(* C22: in the playback loop the j-th reply speak call carries sentences   *)
(* 2j-1 and 2j of the reply (the last call the one left over sentence),    *)
(* joined in their order; 'Should I continue?' is asked only after a       *)
(* reply speak call and only when sentences remain, and is asked whenever  *)
(* they do; a confirmation transcript without affirmative token, the empty *)
(* one included, or a failed confirmation capture is followed by no        *)
(* further reply speak call.                                               *)
C22_PlaybackInOrderUntilDeclined ==
  [][/\ ((spoken' # spoken \/ sentences' # sentences) /\ InPlayback') =>
          \A j \in 1..Len(ReplyChunksSoFar') :
             LET chunk == ReplyChunksSoFar'[j]
                 last == IF 2 * j <= Len(sentences') THEN 2 * j ELSE Len(sentences')
             IN  /\ chunk.first = 2 * j - 1
                 /\ chunk.count = last - chunk.first + 1
                 /\ chunk.count \in {1, 2}
                 /\ chunk.count = 1 => chunk.first = Len(sentences')
                 /\ chunk.text = join(SubSeq(sentences', chunk.first, last))
     /\ AsksToContinue =>
          (pc = "speak_reply" /\ 2 * Len(ReplyChunksSoFar) < Len(sentences))
     /\ (Resumes("speak_reply") /\ ~(pc' = "cycle_pause" /\ caught' = "synthesis")) =>
          (AsksToContinue <=> 2 * Len(ReplyChunksSoFar) < Len(sentences))
     /\ (Resumes("await_confirm") /\ SpeaksReply) =>
          (caught' = caught /\ ContainsAffirmativeToken(userResponse'))
     /\ (Resumes("await_confirm") /\ ~SpeaksReply) =>
          /\ pc' \in {"speak_stop", "cycle_pause"}
          /\ pc' = "speak_stop" => ~ContainsAffirmativeToken(userResponse')
          /\ pc' = "cycle_pause" => caught' = "confirmation"
     /\ Resumes("speak_stop") => (pc' = "cycle_pause" /\ ~SpeaksReply)]_vars

(* The user declined after the first two of at least three sentences: the  *)
(* cycle ended with only that pair spoken                                  *)
C22_Witness ==
  /\ pc = "cycle_pause"
  /\ caught = "none"
  /\ ~ContainsAffirmativeToken(userResponse)
  /\ SaidSoFar = <<"Yes", "reply", "Should I continue?", "Okay, stopping here.">>
  /\ \E u \in {spoken[2]} : u.first = 1 /\ u.count = 2

(* The orchestrator is awaiting textToSpeech.speak or chatGPT.sendMessage *)
AwaitsSynthesisOrGeneration ==
  pc \in {"speak_yes", "speak_apology", "await_reply", "speak_reply", "ask_continue",
          "speak_stop"}

(* Calls of the external capabilities in progress: the listener's          *)
(* recognizeStream calls, and the one call the orchestrator is awaiting    *)
ExternalCallsInProgress ==
  Cardinality(inflight)
    + (IF AwaitsSynthesisOrGeneration \/ pc = "await_confirm" THEN 1 ELSE 0)

(* C23: at most one call of an external capability is in progress: while   *)
(* the orchestrator awaits speak or sendMessage no recognizeStream call of *)
(* the listener is in flight.                                              *)
C23_OneExternalCallAtATime ==
  /\ AwaitsSynthesisOrGeneration => inflight = {}
  /\ ExternalCallsInProgress <= 1

(* C24: from the first listenForWakeWord on there is one continuous        *)
(* recording, held by the orchestrator and never stopped, and one listener *)
(* attached to it by one startListening call; no later call starts a       *)
(* recording or attaches a handler again.                                  *)
C24_OneContinuousCapture ==
  pc # "start" =>
    /\ streamsCreated = 1
    /\ continuousStream = 1
    /\ continuousListener
    /\ handlersAttached = 1
    /\ ~continuousStopped

(* A cycle ended in the catch block after a confirmation capture whose     *)
(* recording was stopped by its timer, and the next cycle is listening for *)
(* the wake word on the same stream                                        *)
C24_Witness ==
  /\ pc = "await_wake"
  /\ CycleRequest = 3
  /\ caught = "confirmation"
  /\ recording = "none"
  /\ stopTimers = 0
  /\ streamsCreated = 1
  /\ handlersAttached = 1

(* The orchestrator is awaiting a listen request of the listener *)
AwaitsListen == pc \in {"await_wake", "await_command"}

(* C25: every listen the orchestrator awaits is eventually ended, also     *)
(* when no boundary fires because the chunks stay at or above the          *)
(* threshold or stop arriving.                                             *)
C25_ListenEventuallyEnds ==
  /\ (pc = "await_wake") ~> (pc # "await_wake")
  /\ (pc = "await_command") ~> (pc # "await_command")

(* This step is the orchestrator's call of listenForWakeWord *)
StartsCycle == pc \in {"start", "cycle_pause"} /\ pc' = "await_wake"

(* C26: a stream is subscribed to only in the orchestrator's call of       *)
(* listenForWakeWord, never by the listener on its own, and when the       *)
(* continuous stream has emitted an error the next cycle starts on a new   *)
(* stream with a newly attached listener.                                  *)
C26_FreshCaptureAfterStreamError ==
  [][/\ (handlersAttached' # handlersAttached \/ streamsCreated' # streamsCreated) => StartsCycle
     /\ (StartsCycle /\ streamFailed) =>
          /\ continuousStream' # continuousStream
          /\ streamsCreated' = streamsCreated + 1
          /\ handlersAttached' = handlersAttached + 1]_vars

(* This step hands an apology to speak *)
SpeaksApology ==
  /\ Len(spoken') = Len(spoken) + 1
  /\ spoken'[Len(spoken')].say = "I didn't hear anything"

(* C27: when the command listen is rejected with a transcription error the *)
(* orchestrator speaks an apology, and when that speak call has ended the  *)
(* cycle ends and the next one starts with listenForWakeWord.              *)
C27_FailedCommandApologises ==
  [][/\ (Resumes("await_command") /\ promises[CycleRequest].status = "rejected"
          /\ settlement.error \in TranscriptionErrors) =>
          (SpeaksApology /\ pc' = "speak_apology")
     /\ Resumes("speak_apology") => pc' = "cycle_pause"
     /\ Resumes("cycle_pause") => StartsCycle]_vars

(* C28: whatever way a speak or sendMessage call ends, the orchestrator    *)
(* goes on inside the cycle or ends the cycle, the process never exits; a  *)
(* rejection of either ends the cycle in the catch block; and an ended     *)
(* cycle is followed by the next, which starts with a new wake-word        *)
(* listen request.                                                         *)
C28_CollaboratorFailureEndsCycleOnly ==
  [][/\ pc' # "exited"
     /\ (AwaitsSynthesisOrGeneration /\ pc' # pc) =>
          pc' \in {"settle_pause", "speak_reply", "ask_continue", "await_confirm",
                   "speak_stop", "cycle_pause"}
     /\ (pc' # pc /\ pc' = "cycle_pause" /\ caught' \in {"synthesis", "generation"}) =>
          (AwaitsSynthesisOrGeneration /\ spoken' = spoken /\ prompts' = prompts)
     /\ Resumes("cycle_pause") =>
          /\ StartsCycle
          /\ mode' = "wake_word"
          /\ currentResolver' = nextReq
          /\ promises'[nextReq].status = "pending"]_vars

(* After a cycle that a rejected sendMessage ended in the catch block, the *)
(* next cycle is listening for the wake word                               *)
C28_Witness ==
  /\ pc = "await_wake"
  /\ caught = "generation"
  /\ CycleRequest = 3
  /\ promises[CycleRequest].status = "pending"
  /\ currentResolver = CycleRequest

(***************************************************************************)
(* C29: with a listen request outstanding, an utterance (a chunk at or     *)
(* above the threshold followed by chunks below it) is never lost or       *)
(* stuck.  The buffered utterance leaves the buffer only inside a          *)
(* dispatched transcription or at a new listen call; every chunk that      *)
(* extends its silence to silenceDuration or more dispatches it, unless a  *)
(* transcription is still in flight, and then the utterance stays buffered *)
(* with the timer armed; and isProcessing never blocks an outstanding      *)
(* request with no transcription left to return.  With chunks arriving and *)
(* transcriptions returning, the utterance is therefore dispatched.        *)
(***************************************************************************)
Elements(buf) == {buf[i] : i \in 1..Len(buf)}
UtteranceEnd == IF runStart > 0 THEN runStart - 1 ELSE streamPos
UtteranceBuffered == speechSinceEntry /\ UtteranceEnd \in Elements(chunkBuffer)
DispatchedWith(chunk) == \E t \in inflight' \ inflight : chunk \in Elements(t.audio)
ListenCalled == nextReq' # nextReq
SilenceComplete ==
  /\ ChunkHandled
  /\ runStart # 0
  /\ runStart' = runStart
  /\ now' - ArrivalTime(runStart) >= silenceDuration
C29_UtteranceNeverLostOrStuck ==
  [][/\ (UtteranceBuffered /\ UtteranceEnd \notin Elements(chunkBuffer'))
          => (DispatchedWith(UtteranceEnd) \/ ListenCalled)
     /\ (UtteranceBuffered /\ currentResolver # NoReq /\ SilenceComplete)
          => \/ DispatchedWith(UtteranceEnd)
             \/ /\ isProcessing
                /\ inflight # {}
                /\ chunkBuffer' = Append(chunkBuffer, streamPos')
                /\ silenceStartTime' = silenceStartTime
                /\ silenceStartTime # NoTime
     /\ (isProcessing' /\ currentResolver' # NoReq) => inflight' # {}]_vars
(* A boundary was held back by a transcription in flight and the utterance went out once it returned *)
C29_Witness ==
  \E t \in inflight :
    /\ t.id = 2
    /\ t.req = currentResolver
    /\ currentResolver # NoReq
    /\ speechSinceEntry
    /\ runStart # 0
    /\ t.audio[1] = runStart - 1
    /\ (Len(t.audio) - 1) * ChunkIntervalMs > silenceDuration + ChunkIntervalMs

(***************************************************************************)
(* C30: the audio handed to each transcription is the buffer as it stood   *)
(* at the boundary chunk: a contiguous run of handled chunks in arrival    *)
(* order.  The buffer only grows by the chunk just handled and is emptied  *)
(* by the dispatch, so no chunk is reordered or duplicated and no chunk    *)
(* reaches two transcriptions, whether or not another transcription is in  *)
(* flight.                                                                 *)
(***************************************************************************)
ContiguousRun(audio) == \A i \in 1..Len(audio) : audio[i] = audio[1] + (i - 1)
(* This step delivers a chunk that is not skipped (handleChunk reaches the push) *)
PushesChunk ==
  /\ streamPos' = streamPos + 1
  /\ chunkCount' # 1
  /\ ~(mode = "command" /\ chunkCount' <= CommandSkipChunks)
C30_AudioIsContiguousRunUsedOnce ==
  [][(chunkBuffer' # chunkBuffer \/ nextTid' # nextTid) =>
       /\ \/ chunkBuffer' = <<>>
          \/ PushesChunk /\ chunkBuffer' = Append(chunkBuffer, streamPos')
       /\ ContiguousRun(chunkBuffer')
       /\ \A t \in inflight' \ inflight :
            /\ PushesChunk
            /\ t.audio = Append(chunkBuffer, streamPos')
            /\ chunkBuffer' = <<>>
       /\ \A t \in inflight' : Len(t.audio) > 0 /\ ContiguousRun(t.audio)
       /\ \A t, u \in inflight' : t # u => Elements(t.audio) \cap Elements(u.audio) = {}
       /\ \A t \in inflight' : Elements(t.audio) \cap Elements(chunkBuffer') = {}]_vars
(* Two transcriptions in flight at once, the second holding the chunks that followed the first *)
C30_Witness ==
  \E t, u \in inflight :
    /\ t.id = 1
    /\ u.id = 2
    /\ Len(t.audio) > 1
    /\ Len(u.audio) > 1
    /\ u.audio[1] = t.audio[Len(t.audio)] + 1

(***************************************************************************)
(* C31: whenever a boundary fires, the silence timer is unset once that    *)
(* chunk has been handled, in both modes and whether or not the boundary   *)
(* dispatches a transcription.                                             *)
(***************************************************************************)
C31_BoundaryResetsTimer ==
  [][(streamPos' # streamPos /\ silenceStartTime # NoTime /\ BoundaryFires)
       => silenceStartTime' = NoTime]_vars

(***************************************************************************)
(* C32: in command mode a boundary with no chunk at or above the threshold *)
(* since the listenForCommand call empties the buffer and unsets the       *)
(* silence timer, dispatches nothing and leaves the pending request and    *)
(* the mode as they were; a later boundary after speech hands the buffer   *)
(* to a transcription for that same request, and its transcript fulfils    *)
(* the request.                                                            *)
(***************************************************************************)
SilenceOnlyBoundary ==
  /\ mode = "command"
  /\ ~speechSinceEntry
  /\ streamPos' # streamPos
  /\ silenceStartTime # NoTime
  /\ BoundaryFires
SpeechBoundary ==
  /\ mode = "command"
  /\ speechSinceEntry
  /\ ~isProcessing
  /\ streamPos' # streamPos
  /\ silenceStartTime # NoTime
  /\ BoundaryFires
C32_SilenceOnlyBoundaryKeepsRequest ==
  [][/\ SilenceOnlyBoundary =>
          /\ chunkBuffer' = <<>>
          /\ silenceStartTime' = NoTime
          /\ ~Dispatches
          /\ mode' = mode
          /\ currentResolver' = currentResolver
          /\ currentRejector' = currentRejector
          /\ promises' = promises
     /\ SpeechBoundary =>
          \E t \in inflight' \ inflight :
            /\ t.mode = "command"
            /\ t.req = currentResolver
            /\ t.audio = Append(chunkBuffer, streamPos')
     /\ \A t \in inflight \ inflight', transcription \in Transcripts :
          (/\ mode = "command"
           /\ t.mode = "command"
           /\ t.req = currentResolver
           /\ t.req # NoReq
           /\ processCommandReturned(t, transcription))
          => /\ promises'[t.req].status = "resolved"
             /\ settlement'.req = t.req
             /\ settlement'.value = transcription]_vars
(* A silence-only boundary emptied the buffer, and the utterance after it is being transcribed for the same request *)
C32_Witness ==
  \E t \in inflight :
    /\ mode = "command"
    /\ t.mode = "command"
    /\ t.req = currentResolver
    /\ currentResolver # NoReq
    /\ promises[currentResolver].status = "pending"
    /\ Len(t.audio) + Len(chunkBuffer) < chunkCount - CommandSkipChunks

(***************************************************************************)
(* C33: a command listen request is fulfilled only with the transcript of  *)
(* a transcription dispatched in command mode for that request; a          *)
(* transcription dispatched in wake-word mode that returns after the       *)
(* listenForCommand call never fulfils it.                                 *)
(***************************************************************************)
C33_CommandFulfilledByCommandAudioOnly ==
  [][(/\ mode = "command"
      /\ currentResolver # NoReq
      /\ promises'[currentResolver].status = "resolved")
       => /\ settlement'.req = currentResolver
          /\ settlement'.viaMode = "command"
          /\ settlement'.viaReq = currentResolver]_vars

(***************************************************************************)
(* C34: the orchestrator calls listenForWakeWord or listenForCommand only  *)
(* when no listen request is outstanding and every earlier request is      *)
(* settled, so a listen call never overwrites the resolver of a pending    *)
(* request and at most one request is pending at any time.                 *)
(***************************************************************************)
PendingRequests == {r \in ReqIds : promises[r].status = "pending"}
C34_NoListenWhileRequestUnsettled ==
  [][/\ ListenCalled => (currentResolver = NoReq /\ currentRejector = NoReq /\ PendingRequests = {})
     /\ PendingRequests' \subseteq {currentResolver'}]_vars
(* The wake-word listen of the second cycle is pending after both listens of the first were fulfilled *)
C34_Witness ==
  /\ pc = "await_wake"
  /\ CycleRequest = 3
  /\ PendingRequests = {3}
  /\ currentResolver = 3
  /\ promises[1].status = "resolved"
  /\ promises[2].status = "resolved"

(* The 'Should I continue?' prompts of the cycle so far, one per confirmation capture *)
AsksSoFar == SelectSeq(spoken, LAMBDA u : u.say = "Should I continue?")

(* This step starts a confirmation capture *)
StartsCapture == pc = "ask_continue" /\ pc' = "await_confirm" /\ recording' = "confirm"

(***************************************************************************)
(* C35: the playback loop of a reply of n sentences ends, after at most    *)
(* ceil(n/2) reply speak calls and at most ceil(n/2) - 1 confirmation      *)
(* captures, whatever the confirmation answers are.                        *)
(***************************************************************************)
C35_PlaybackLoopTerminates ==
  /\ [][/\ SpeaksReply => 2 * Len(ReplyChunksSoFar') <= Len(sentences') + 1
        /\ AsksToContinue => 2 * Len(AsksSoFar') <= Len(sentences') - 1
        /\ StartsCapture => 2 * Len(AsksSoFar) <= Len(sentences) - 1
        /\ (InPlayback /\ InPlayback') => (sentences' = sentences /\ sentenceIndex' >= sentenceIndex)]_vars
  /\ InPlayback ~> ~InPlayback
(* The loop has ended after three reply speak calls and two confirmation captures for five sentences *)
C35_Witness ==
  /\ pc = "cycle_pause"
  /\ caught = "none"
  /\ Len(ReplyChunksSoFar) = 3
  /\ Len(AsksSoFar) = 2
  /\ ReplyChunksSoFar[3].first = 5
  /\ ReplyChunksSoFar[3].count = 1

(* The history is the system message followed by user and assistant messages in turn *)
StrictlyAlternating(history) ==
  /\ Len(history) >= 1
  /\ history[1].role = "system"
  /\ \A i \in 2..Len(history) : history[i].role = IF i % 2 = 0 THEN "user" ELSE "assistant"

(* This step is a sendMessage call ending in a rejection *)
SendFails ==
  /\ completionPending
  /\ ~completionPending'
  /\ Len(conversationHistory') <= Len(conversationHistory)

(***************************************************************************)
(* C36: a sendMessage call that fails leaves the conversation history as   *)
(* it was before the call (without the user message the call pushed), and  *)
(* the history is always the system message followed by strictly           *)
(* alternating user and assistant messages.                                *)
(***************************************************************************)
C36_FailedSendLeavesHistory ==
  [][/\ SendFails =>
          conversationHistory' = SubSeq(conversationHistory, 1, Len(conversationHistory) - 1)
     /\ StrictlyAlternating(conversationHistory')]_vars

====
